---- MODULE Spec2Model ----
(***************************************************************************)
(* Model of pkg/resticfs: the copy-on-write snapshot filesystem layered    *)
(* over a restic repository.  Trees, nodes and file handles live in        *)
(* arenas (sequences indexed by allocation order); a Go pointer is an      *)
(* index into its arena and nil is 0.  An optional value, such as a        *)
(* restic.ID pointer or a slice that may be nil, is a sequence of length   *)
(* 0 for nil and of length 1 otherwise.  A function that works on the      *)
(* result of a call binds that result as the parameter of a local          *)
(* operator, so the call is written and evaluated once.                    *)
(***************************************************************************)
EXTENDS Integers, Sequences, FiniteSets, TLC

\* ---------------------------------------------------------------- bounds
MaxSteps == 5
MaxTrees == 3
MaxNodes == 3
MaxHandles == 2
MaxSnapshots == 3
MaxLen == 1
ChunkSize == 1
\* the blobs in the content list of a file read through the chunk view
MaxBlobs == 3
\* the goroutines that may be inside a call which does not hold fs.mu
MaxCalls == 2

Paths == {<<"f">>, <<"d">>, <<"d", "f">>}
\* the same with a second name in d and a path below a directory of d
DeepPaths == Paths \cup {<<"d", "d">>, <<"d", "f", "f">>}
Payloads == {<<2>>}

\* open flags, as the set of bits that are set
oWRITEABLE == {"O_RDWR", "O_WRONLY"}
FlagSets == { {}, {"O_RDWR"}, {"O_RDWR", "O_CREATE", "O_TRUNC"} }

\* the directories TempFile is asked for (<<>> is the empty string) and the
\* names it tries in turn, the prefix and a random suffix each
TempDirs == {<<>>, <<"d">>}
TempNames == <<"f", "t">>

\* the buffer lengths of the reads
ReadLens == {1, MaxLen + 1}

\* whether Temporary.TempFile succeeds
TempFates == BOOLEAN
\* the flag sets of the handle methods' checks: the above and an appending
\* writer
HandleFlagSets == FlagSets \cup { {"O_RDWR", "O_APPEND"} }
\* the sizes passed to Truncate
TruncSizes == 0..MaxLen
\* the arguments of Seek
SeekOffsets == 0..MaxLen
Whences == {"SeekStart", "SeekCurrent", "SeekEnd"}

None == <<>>
Some(x) == <<x>>

VARIABLES
  writable,   \* Filesystem.writable
  tree,       \* arena of resticTree; fs.root is tree[1]
  node,       \* arena of resticNode
  handle,     \* arena of fileHandle
  repoData,   \* data blobs of the repository: set of [id, data]
  repoTrees,  \* tree blobs of the repository: set of [id, data]
  snapshots,  \* snapshot records saved in the repository, oldest first
  crashed,    \* "none", or the panic that ended the process
  chunker,    \* Filesystem.chunker: None, or the bytes its reader still holds
  steps,      \* the number of calls so far that changed the hierarchy,
              \* a handle or the repository
  pristine,   \* no mutating call since New or the last successful commit
  inflight    \* per goroutine, the call it is inside and how far it got

fsvars == <<tree, node, handle, repoData, repoTrees, snapshots, crashed,
            chunker>>
vars == <<writable, fsvars, steps, pristine, inflight>>

\* a call counts when it changes the hierarchy, a handle or the repository
\* and leaves the goroutines that are inside another call where they are
Counted ==
  /\ steps' = IF fsvars' = fsvars THEN steps ELSE steps + 1
  /\ inflight' = inflight

\* a goroutine that is inside no call
Idle == [op |-> "idle", h |-> 0, pc |-> "idle", seen |-> 0, start |-> <<>>]

root == 1

\* ------------------------------------------------------------ repository
\* restic.Hash: a content hash; distinct bytes give distinct ids.
Hash(data) == [sha |-> data]

IndexHas(store, id) == \E b \in store : b.id = id

LoadBlob(store, id) == (CHOOSE b \in store : b.id = id).data

SaveBlob(store, data, id) == store \cup {[id |-> id, data |-> data]}

\* --------------------------------------------------------------- helpers
RECURSIVE Concat(_)
Concat(ss) == IF ss = <<>> THEN <<>> ELSE Head(ss) \o Concat(Tail(ss))

Front(s) == SubSeq(s, 1, Len(s) - 1)
Last(s) == s[Len(s)]

Min(a, b) == IF a < b THEN a ELSE b

Zeros(k) == [i \in 1..k |-> 0]

\* ----------------------------------------------------------------- trees
newTree(parent) == [parent |-> parent, Nodes |-> <<>>, ID |-> None]

\* resticTree.Find: the first node with the name, 0 for nil
Find(H, t, name) ==
  LET hits == {i \in 1..Len(H.tree[t].Nodes) :
                 H.node[H.tree[t].Nodes[i]].Name = name}
  IN IF hits = {} THEN 0
     ELSE H.tree[t].Nodes[CHOOSE i \in hits : \A j \in hits : i <= j]

RECURSIVE treeMarkDirty(_, _)
treeMarkDirty(T, t) ==
  IF t = 0 THEN T
  ELSE treeMarkDirty([T EXCEPT ![t].ID = None], T[t].parent)

nodeMarkDirty(H, n) ==
  LET N1 == [H.node EXCEPT ![n].Content = None]
  IN [H EXCEPT !.node = N1,
               !.tree = IF N1[n].parent # 0
                        THEN treeMarkDirty(H.tree, N1[n].parent)
                        ELSE H.tree]

\* resticTree.addNode; a name conflict is a panic
addNode(H, t, n) ==
  IF Find(H, t, H.node[n].Name) # 0
  THEN [H |-> H, err |-> "panic: conflicting name"]
  ELSE [H |-> [H EXCEPT !.tree =
                 treeMarkDirty([H.tree EXCEPT ![t].Nodes = Append(@, n)], t)],
        err |-> "ok"]

\* resticTree.Remove.  The loop variable keeps its last value when no name
\* matches, so on a non-empty list the last entry is the one removed.
Remove(H, t, name) ==
  LET ns == H.tree[t].Nodes
      hits == {i \in 1..Len(ns) : H.node[ns[i]].Name = name}
      i == IF hits # {} THEN CHOOSE k \in hits : \A j \in hits : k <= j
           ELSE Len(ns)
  IN IF Len(ns) = 0 THEN H
     ELSE [H EXCEPT !.tree =
             treeMarkDirty(
               [H.tree EXCEPT ![t].Nodes =
                  SubSeq([ns EXCEPT ![i] = ns[Len(ns)]], 1, Len(ns) - 1)], t)]

\* ----------------------------------------------------------------- nodes
\* perm & ^uMask of the nodes the calls create: Create passes 0666, the
\* callers of MkdirAll 0777; the directory bit is not set
NewFileMode == "-rw-rw-r--"
NewDirMode == "-rwxrwxr-x"

\* newFromNode that does not take the size over
newFromNode_NoSize(parent, rn) ==
  [parent |-> parent, Name |-> rn.Name, Type |-> rn.Type, Size |-> 0,
   Mode |-> rn.Mode, Content |-> rn.Content, Subtree |-> rn.Subtree,
   subtree |-> 0,
   backing |-> "none", data |-> <<>>, cursor |-> 0, openWriters |-> 0,
   flock |-> FALSE]

\* newFromNode: the restic.Node is copied into the node
newFromNode(parent, rn) ==
  [parent |-> parent, Name |-> rn.Name, Type |-> rn.Type, Size |-> rn.Size,
   Mode |-> rn.Mode, Content |-> rn.Content, Subtree |-> rn.Subtree,
   subtree |-> 0,
   backing |-> "none", data |-> <<>>, cursor |-> 0, openWriters |-> 0,
   flock |-> FALSE]

\* the embedded restic.Node, as it is serialized into a tree blob
ResticNode(nd) ==
  [Name |-> nd.Name, Type |-> nd.Type, Size |-> nd.Size,
   Mode |-> nd.Mode, Content |-> nd.Content, Subtree |-> nd.Subtree]

\* openTree: load the tree blob and wrap each of its nodes
openTree(H, parent, original) ==
  LET rt == LoadBlob(repoTrees, original)
      t == Len(H.tree) + 1
      base == Len(H.node)
  IN [H |-> [tree |-> Append(H.tree,
                       [parent |-> parent,
                        Nodes |-> [i \in 1..Len(rt) |-> base + i],
                        ID |-> Some(original)]),
             node |-> H.node \o [i \in 1..Len(rt) |-> newFromNode(t, rt[i])]],
      t |-> t]

\* resticNode.OpenSubtree
nodeOpenSubtree(H, n) ==
  LET Loaded(r) ==
        [H |-> [r.H EXCEPT !.node[n].subtree = r.t], t |-> r.t, err |-> "ok"]
  IN IF H.node[n].Type # "dir"
     THEN [H |-> H, t |-> 0, err |-> "ErrNotDirectory"]
     ELSE IF H.node[n].subtree = 0
     THEN Loaded(openTree(H, H.node[n].parent, H.node[n].Subtree[1]))
     ELSE [H |-> H, t |-> H.node[n].subtree, err |-> "ok"]

newDirectory(H, parent, name) ==
  LET t == Len(H.tree) + 1
      n == Len(H.node) + 1
      nd == [parent |-> parent, Name |-> name, Type |-> "dir", Size |-> 0,
             Mode |-> NewDirMode,
             Content |-> None, Subtree |-> None, subtree |-> t,
             backing |-> "none", data |-> <<>>, cursor |-> 0,
             openWriters |-> 0, flock |-> FALSE]
      H1 == [tree |-> Append(H.tree, newTree(parent)),
             node |-> Append(H.node, nd)]
      Added(r) == [H |-> r.H, n |-> n, err |-> r.err]
  IN Added(addNode(H1, parent, n))

newFile(H, parent, name) ==
  LET n == Len(H.node) + 1
      nd == [parent |-> parent, Name |-> name, Type |-> "file", Size |-> 0,
             Mode |-> NewFileMode,
             Content |-> None, Subtree |-> None, subtree |-> 0,
             backing |-> "none", data |-> <<>>, cursor |-> 0,
             openWriters |-> 0, flock |-> FALSE]
      Added(r) == [H |-> r.H, n |-> n, err |-> r.err]
  IN Added(addNode([H EXCEPT !.node = Append(@, nd)], parent, n))

\* resticTree.OpenSubtree that creates nothing
OpenSubtree_NoCreate(H, t, name, flag) ==
  LET Found(n) ==
        IF n = 0 THEN [H |-> H, t |-> 0, err |-> "ErrNotExist"]
        ELSE IF "O_EXCL" \in flag
        THEN [H |-> H, t |-> 0, err |-> "ErrExist"]
        ELSE nodeOpenSubtree(H, n)
  IN Found(Find(H, t, name))

\* resticTree.OpenSubtree
OpenSubtree(H, t, name, flag) ==
  LET Created(r) == IF r.err # "ok" THEN [H |-> r.H, t |-> 0, err |-> r.err]
                    ELSE nodeOpenSubtree(r.H, r.n)
      Found(n) ==
        IF n = 0
        THEN IF "O_CREATE" \in flag
             THEN IF ~writable
                  THEN [H |-> H, t |-> 0, err |-> "ErrPermission"]
                  ELSE Created(newDirectory(H, t, name))
             ELSE [H |-> H, t |-> 0, err |-> "ErrNotExist"]
        ELSE IF "O_EXCL" \in flag
        THEN [H |-> H, t |-> 0, err |-> "ErrExist"]
        ELSE nodeOpenSubtree(H, n)
  IN Found(Find(H, t, name))

\* Filesystem.getTree and the loop of Filesystem.MkdirAll: walk the
\* components from the root with the given flag
RECURSIVE walk(_, _, _, _)
walk(H, t, comps, flag) ==
  LET Opened(r) == IF r.err # "ok" THEN r
                   ELSE walk(r.H, r.t, Tail(comps), flag)
  IN IF comps = <<>> THEN [H |-> H, t |-> t, err |-> "ok"]
     ELSE Opened(OpenSubtree(H, t, Head(comps), flag))

getTree(H, path) == walk(H, root, path, {})

Heap == [tree |-> tree, node |-> node]

Fits(H) == Len(H.tree) <= MaxTrees /\ Len(H.node) <= MaxNodes

\* ---------------------------------------------------------- initial state
\* the parent snapshot: the file f (one blob) and the empty directory d
Blob1 == <<1>>
TreeD == <<>>
TreeRoot == << [Name |-> "f", Type |-> "file", Size |-> 1,
                Mode |-> "-rw-r--r--",
                Content |-> Some(<<Hash(Blob1)>>), Subtree |-> None],
               [Name |-> "d", Type |-> "dir", Size |-> 0,
                Mode |-> "drwxr-xr-x",
                Content |-> None, Subtree |-> Some(Hash(TreeD))] >>

\* New(ctx, repo, nil): an empty root that was never saved
InitEmpty ==
  /\ repoData = {} /\ repoTrees = {} /\ snapshots = <<>>
  /\ tree = <<newTree(0)>> /\ node = <<>>

\* New(ctx, repo, &id): the root tree of the parent snapshot, loaded
InitParent ==
  /\ repoData = {[id |-> Hash(Blob1), data |-> Blob1]}
  /\ repoTrees = {[id |-> Hash(TreeD), data |-> TreeD],
                  [id |-> Hash(TreeRoot), data |-> TreeRoot]}
  /\ snapshots = <<[Tree |-> Hash(TreeRoot)]>>
  /\ tree = << [parent |-> 0, Nodes |-> <<1, 2>>, ID |-> Some(Hash(TreeRoot))] >>
  /\ node = [i \in 1..2 |-> newFromNode(1, TreeRoot[i])]

Init ==
  /\ steps = 0
  /\ pristine = TRUE
  /\ writable = FALSE
  /\ handle = <<>>
  /\ crashed = "none"
  /\ chunker = None
  /\ inflight = [g \in 1..MaxCalls |-> Idle]
  /\ (InitEmpty \/ InitParent)

\* ---------------------------------------------------------- file backing
\* resticFile.cumsize: cumsize[i+1] is the size of blobs[:i]
RECURSIVE cumsize(_)
cumsize(content) ==
  LET Next1(c) == Append(c, Last(c) + Len(LoadBlob(repoData, Last(content))))
  IN IF content = <<>> THEN <<0>> ELSE Next1(cumsize(Front(content)))

\* newResticFile succeeds when every blob is indexed and the sizes add up
newResticFileOK(nd) ==
  /\ \A i \in 1..Len(nd.Content[1]) : IndexHas(repoData, nd.Content[1][i])
  /\ Last(cumsize(nd.Content[1])) = nd.Size

RECURSIVE roLoop(_, _, _, _, _)
\* the loop of resticFile.ReadAt skipping the offset in every blob
roLoop_KeepOffset(content, i, offset, remaining, acc) ==
  LET Copy(part) ==
        roLoop(content, i + 1, offset, remaining - Min(remaining, Len(part)),
               acc \o SubSeq(part, 1, Min(remaining, Len(part))))
      From(blob) == Copy(SubSeq(blob, offset + 1, Len(blob)))
  IN IF ~(remaining > 0 /\ i <= Len(content)) THEN acc
     ELSE From(LoadBlob(repoData, content[i]))

\* the loop of resticFile.ReadAt, from blob i on
roLoop(content, i, offset, remaining, acc) ==
  LET Copy(part) ==
        roLoop(content, i + 1, 0, remaining - Min(remaining, Len(part)),
               acc \o SubSeq(part, 1, Min(remaining, Len(part))))
      From(blob) == Copy(SubSeq(blob, offset + 1, Len(blob)))
  IN IF ~(remaining > 0 /\ i <= Len(content)) THEN acc
     ELSE From(LoadBlob(repoData, content[i]))

\* resticFile.ReadAt on the chunk view of a node: the bytes and the EOF flag
roReadAt(nd, len, off) ==
  LET content == nd.Content[1]
      Result(bytes) == [bytes |-> bytes, eof |-> Len(bytes) < len]
      Search(cs, above) == IF above = {} THEN Len(cs) + 1
                           ELSE CHOOSE j \in above : \A k \in above : j <= k
      Read(cs, startContent) ==
        Result(roLoop(content, startContent, off - cs[startContent], len, <<>>))
      With(cs) == Read(cs, Search(cs, {j \in 1..Len(cs) : cs[j] > off}) - 1)
  IN With(cumsize(content))

\* the scratch file: a write at the file offset, zero-filling a gap
scratchWrite(nd, p) ==
  LET padded == IF Len(nd.data) < nd.cursor
                THEN nd.data \o Zeros(nd.cursor - Len(nd.data)) ELSE nd.data
  IN [nd EXCEPT !.data = SubSeq(padded, 1, nd.cursor) \o p
                         \o SubSeq(padded, nd.cursor + Len(p) + 1, Len(padded)),
                !.cursor = nd.cursor + Len(p)]

\* the scratch file: truncate keeps the file offset
scratchTruncate(nd, size) ==
  [nd EXCEPT !.data = IF size <= Len(nd.data) THEN SubSeq(nd.data, 1, size)
                      ELSE nd.data \o Zeros(size - Len(nd.data))]

\* resticNode.makeWritable leaving the node's Content in place
makeWritable_KeepContent(H, n, tmpOK) ==
  IF ~tmpOK THEN [H |-> H, err |-> "ErrTemp"]
  ELSE [H |-> [H EXCEPT !.node[n].backing = "scratch",
                        !.node[n].data = roReadAt(H.node[n], MaxLen + 1, 0).bytes,
                        !.node[n].cursor = 0],
        err |-> "ok"]

\* resticNode.makeWritable; tmpOK says whether Temporary.TempFile succeeds
makeWritable(H, n, tmpOK) ==
  LET Copied(copy) ==
        [H |-> nodeMarkDirty([H EXCEPT !.node[n].backing = "scratch",
                                       !.node[n].data = copy,
                                       !.node[n].cursor = 0], n),
         err |-> "ok"]
  IN IF ~tmpOK THEN [H |-> H, err |-> "ErrTemp"]
     ELSE Copied(roReadAt(H.node[n], MaxLen + 1, 0).bytes)

\* fileHandle.Truncate: straight to the current backing, whatever the handle
handleTruncate(H, n, size) ==
  CASE H.node[n].backing = "none" -> [H |-> H, err |-> "panic: nil backing"]
    [] H.node[n].backing = "ro" -> [H |-> H, err |-> "ErrPermission"]
    [] OTHER -> [H |-> [H EXCEPT !.node[n] = scratchTruncate(@, size)],
                 err |-> "ok"]

\* the scratch file's ReadAt: the bytes from off on, EOF when they run short
scratchReadAt(nd, len, off) ==
  LET Result(bytes) == [bytes |-> bytes,
                        err |-> IF Len(bytes) < len THEN "EOF" ELSE "ok"]
  IN Result(SubSeq(nd.data, off + 1, Min(off + len, Len(nd.data))))

\* fileHandle.ReadAt reading the chunks of the node's saved content, whatever
\* the node's backing has become
handleReadAt_ChunkView(H, f, len, pos) ==
  LET nd == H.node[f.n]
      Chunked(r) == [bytes |-> r.bytes, err |-> IF r.eof THEN "EOF" ELSE "ok"]
  IN IF f.isClosed THEN [bytes |-> <<>>, err |-> "ErrClosed"]
     ELSE IF nd.Content = None THEN [bytes |-> <<>>, err |-> "EOF"]
     ELSE Chunked(roReadAt(nd, len, pos))

\* fileHandle.ReadAt: to the node's backing as it is at the time of the call
handleReadAt(H, f, len, pos) ==
  LET nd == H.node[f.n]
      Chunked(r) == [bytes |-> r.bytes, err |-> IF r.eof THEN "EOF" ELSE "ok"]
  IN IF f.isClosed THEN [bytes |-> <<>>, err |-> "ErrClosed"]
     ELSE CASE nd.backing = "none" ->
                 [bytes |-> <<>>, err |-> "panic: nil backing"]
            [] nd.backing = "ro" ->
                 IF nd.Content = None
                 THEN [bytes |-> <<>>,
                       err |-> IF len > 0 /\ pos < nd.Size
                               THEN "panic: index out of range" ELSE "EOF"]
                 ELSE Chunked(roReadAt(nd, len, pos))
            [] OTHER -> scratchReadAt(nd, len, pos)

\* fileHandle.Read: ReadAt at the handle's position, which then advances;
\* EOF is reported only by a read that returns no byte
handleRead(H, f, len) ==
  LET Done(r) == [bytes |-> r.bytes,
                  position |-> f.position + Len(r.bytes),
                  err |-> IF r.err = "EOF" /\ Len(r.bytes) # 0 THEN "ok"
                          ELSE r.err]
  IN Done(handleReadAt(H, f, len, f.position))

\* fileHandle.Lock: the node's mutex, whatever the handle's own flags say. A
\* sync.Mutex that is held makes the caller wait, its holder included.
handleLock(H, f) ==
  IF H.node[f.n].flock THEN [H |-> H, f |-> f, err |-> "blocked: flock"]
  ELSE [H |-> [H EXCEPT !.node[f.n].flock = TRUE],
        f |-> [f EXCEPT !.isLocked = TRUE], err |-> "ok"]

\* fileHandle.Unlock: releases the node's mutex whoever holds it; unlocking a
\* sync.Mutex that is not held is a fatal runtime error
handleUnlock(H, f) ==
  IF ~H.node[f.n].flock
  THEN [H |-> H, f |-> f, err |-> "fatal: unlock of unlocked mutex"]
  ELSE [H |-> [H EXCEPT !.node[f.n].flock = FALSE],
        f |-> [f EXCEPT !.isLocked = FALSE], err |-> "ok"]

\* fileHandle.Close
handleClose(H, f) ==
  LET Closed(u) ==
        IF u.err # "ok" THEN u
        ELSE [H |-> IF f.flag \cap oWRITEABLE # {}
                    THEN [u.H EXCEPT !.node[f.n].openWriters = @ - 1]
                    ELSE u.H,
              f |-> [u.f EXCEPT !.isClosed = TRUE], err |-> "ok"]
  IN IF f.isClosed THEN [H |-> H, f |-> f, err |-> "ErrClosed"]
     ELSE IF f.isLocked THEN Closed(handleUnlock(H, f))
     ELSE Closed([H |-> H, f |-> f, err |-> "ok"])

\* fileHandle.Write
handleWrite(H, f, p) ==
  IF f.isClosed THEN [H |-> H, err |-> "ErrClosed"]
  ELSE IF f.flag \cap oWRITEABLE = {} THEN [H |-> H, err |-> "ErrPermission"]
  ELSE IF "O_APPEND" \in f.flag THEN [H |-> H, err |-> "panic: O_APPEND"]
  ELSE CASE H.node[f.n].backing = "none" ->
              [H |-> H, err |-> "panic: nil backing"]
         [] H.node[f.n].backing = "ro" -> [H |-> H, err |-> "ErrPermission"]
         [] OTHER -> [H |-> [H EXCEPT !.node[f.n] = scratchWrite(@, p)],
                      err |-> "ok"]

\* fileHandle.Seek; SeekEnd counts from the size recorded in the node
handleSeek(H, f, offset, whence) ==
  IF f.isClosed THEN [f |-> f, err |-> "ErrClosed"]
  ELSE [f |-> [f EXCEPT !.position =
                  CASE whence = "SeekCurrent" -> @ + offset
                    [] whence = "SeekStart" -> offset
                    [] whence = "SeekEnd" -> H.node[f.n].Size + offset
                    [] OTHER -> @],
        err |-> "ok"]

\* newFileHandle truncating whatever the flag
newFileHandle_AlwaysTrunc(H, n, flag) ==
  LET f == [n |-> n, flag |-> flag, isLocked |-> FALSE, isClosed |-> FALSE,
            position |-> 0]
      Truncated(r) == [H |-> r.H, f |-> f, err |-> r.err]
  IN Truncated(handleTruncate(H, n, 0))

\* newFileHandle
newFileHandle(H, n, flag) ==
  LET f == [n |-> n, flag |-> flag, isLocked |-> FALSE, isClosed |-> FALSE,
            position |-> 0]
      Truncated(r) == [H |-> r.H, f |-> f, err |-> r.err]
  IN IF "O_TRUNC" \in flag THEN Truncated(handleTruncate(H, n, 0))
     ELSE [H |-> H, f |-> f, err |-> "ok"]

\* the backing part of resticNode.Open
openBacking(H, n, flag, tmpOK) ==
  LET nd == H.node[n]
      H1 == [H EXCEPT !.node[n].backing = "ro"]
      Made(r) == IF r.err # "ok" THEN [H |-> H1, err |-> r.err] ELSE r
  IN IF nd.backing = "none"
     THEN IF nd.Content = None
          THEN IF ~tmpOK THEN [H |-> H, err |-> "ErrTemp"]
               ELSE [H |-> nodeMarkDirty(
                             [H EXCEPT !.node[n].backing = "scratch",
                                       !.node[n].data = <<>>,
                                       !.node[n].cursor = 0], n),
                     err |-> "ok"]
          ELSE IF ~newResticFileOK(nd) THEN [H |-> H, err |-> "ErrSize"]
          ELSE IF flag \cap oWRITEABLE # {}
          THEN Made(makeWritable(H1, n, tmpOK))
          ELSE [H |-> H1, err |-> "ok"]
     ELSE IF flag \cap oWRITEABLE # {} /\ nd.Content # None
     THEN makeWritable(H, n, tmpOK)
     ELSE [H |-> H, err |-> "ok"]

\* resticNode.Open without the test of openWriters
nodeOpen_NoInUse(H, n, flag, tmpOK) ==
  LET Handle(h) ==
        IF h.err # "ok" THEN [H |-> h.H, f |-> 0, err |-> h.err]
        ELSE IF flag \cap oWRITEABLE # {}
        THEN [H |-> [h.H EXCEPT !.node[n].openWriters = @ + 1],
              f |-> h.f, err |-> "ok"]
        ELSE [H |-> h.H, f |-> h.f, err |-> "ok"]
      Backed(b) == IF b.err # "ok" THEN [H |-> b.H, f |-> 0, err |-> b.err]
                   ELSE Handle(newFileHandle(b.H, n, flag))
  IN Backed(openBacking(H, n, flag, tmpOK))

\* resticNode.Open
nodeOpen(H, n, flag, tmpOK) ==
  LET Handle(h) ==
        IF h.err # "ok" THEN [H |-> h.H, f |-> 0, err |-> h.err]
        ELSE IF flag \cap oWRITEABLE # {}
        THEN IF h.H.node[n].openWriters > 0
             THEN [H |-> h.H, f |-> 0, err |-> "ErrInUse"]
             ELSE [H |-> [h.H EXCEPT !.node[n].openWriters = @ + 1],
                   f |-> h.f, err |-> "ok"]
        ELSE [H |-> h.H, f |-> h.f, err |-> "ok"]
      Backed(b) == IF b.err # "ok" THEN [H |-> b.H, f |-> 0, err |-> b.err]
                   ELSE Handle(newFileHandle(b.H, n, flag))
  IN Backed(openBacking(H, n, flag, tmpOK))

\* resticTree.OpenFile
treeOpenFile(H, t, name, flag, tmpOK) ==
  LET Created(r) == IF r.err # "ok" THEN [H |-> r.H, f |-> 0, err |-> r.err]
                    ELSE nodeOpen(r.H, r.n, flag, tmpOK)
      Found(n) ==
        IF n = 0
        THEN IF "O_CREATE" \in flag
             THEN IF ~writable THEN [H |-> H, f |-> 0, err |-> "ErrPermission"]
                  ELSE Created(newFile(H, t, name))
             ELSE [H |-> H, f |-> 0, err |-> "ErrNotExist"]
        ELSE IF "O_EXCL" \in flag THEN [H |-> H, f |-> 0, err |-> "ErrExist"]
        ELSE IF H.node[n].Type # "file"
        THEN [H |-> H, f |-> 0, err |-> "ErrNotFile"]
        ELSE nodeOpen(H, n, flag, tmpOK)
  IN Found(Find(H, t, name))

\* resticNode.Rename without the test for an entry of the new name
nodeRename_NoExistCheck(H, n, newtree, newname) ==
  LET p == H.node[n].parent
      Named(H1) == [H1 EXCEPT !.node[n].Name = newname]
      Moved(H2) == IF p # newtree THEN addNode(H2, newtree, n)
                   ELSE [H |-> H2, err |-> "ok"]
  IN Moved(Named(IF p # newtree /\ p # 0
                 THEN Remove(H, p, H.node[n].Name) ELSE H))

\* resticNode.Rename
nodeRename(H, n, newtree, newname) ==
  LET p == H.node[n].parent
      Named(H1) == [H1 EXCEPT !.node[n].Name = newname]
      Moved(H2) == IF p # newtree THEN addNode(H2, newtree, n)
                   ELSE [H |-> H2, err |-> "ok"]
  IN IF Find(H, newtree, newname) # 0 THEN [H |-> H, err |-> "ErrExist"]
     ELSE Moved(Named(IF p # newtree /\ p # 0
                      THEN Remove(H, p, H.node[n].Name) ELSE H))

\* trees that hold an entry the call mutated: their list changed, or one of
\* their nodes was renamed, lost its content or got a scratch backing
Mutated(H, H2) ==
  {t \in 1..Len(H.tree) :
     \/ H2.tree[t].Nodes # H.tree[t].Nodes
     \/ \E i \in 1..Len(H2.tree[t].Nodes) :
          LET n == H2.tree[t].Nodes[i]
          IN /\ n <= Len(H.node)
             /\ \/ H2.node[n].Name # H.node[n].Name
                \/ H2.node[n].Content = None /\ H.node[n].Content # None
                \/ H2.node[n].backing = "scratch" /\ H.node[n].backing = "none"}

\* the call changed a tree or a node that existed before it; loading a saved
\* subtree into memory (resticNode.OpenSubtree) is not a change
Changed(H, H2) ==
  \/ \E t \in 1..Len(H.tree) : H2.tree[t] # H.tree[t]
  \/ \E n \in 1..Len(H.node) :
       [H2.node[n] EXCEPT !.subtree = 0] # [H.node[n] EXCEPT !.subtree = 0]

IsPanic(err) == err \in {"panic: conflicting name", "panic: nil backing",
                         "panic: no data for subtree", "panic: O_APPEND",
                         "panic: index out of range", "fatal: stack overflow",
                         "fatal: unlock of unlocked mutex", "blocked: flock"}

\* ---------------------------------------------- the Filesystem's methods
\* Each is a function of the heap: the heap it leaves and the error returned.

\* Filesystem.OpenFile
fsOpenFile(H, path, flag, tmpOK) ==
  LET In(g) == IF g.err # "ok" THEN [H |-> g.H, f |-> 0, err |-> g.err]
               ELSE treeOpenFile(g.H, g.t, Last(path), flag, tmpOK)
  IN In(getTree(H, Front(path)))

\* the loop of billyutil.TempFile over the candidate names: an exclusive
\* create of each through Filesystem.OpenFile until one does not exist
RECURSIVE tempLoop(_, _, _, _)
tempLoop(H, dir, names, tmpOK) ==
  LET Tried(r) == IF r.err = "ErrExist" /\ Len(names) > 1
                  THEN tempLoop(r.H, dir, Tail(names), tmpOK)
                  ELSE r
  IN Tried(fsOpenFile(H, Append(dir, Head(names)),
                      {"O_RDWR", "O_CREATE", "O_EXCL"}, tmpOK))

\* Filesystem.TempFile; for the empty dir billyutil.TempFile takes
\* os.TempDir(), the directory tmp of this Filesystem
fsTempFile(H, dir, tmpOK) ==
  IF ~writable THEN [H |-> H, f |-> 0, err |-> "ErrPermission"]
  ELSE tempLoop(H, IF dir = <<>> THEN <<"tmp">> ELSE dir, TempNames, tmpOK)

\* NodeInfo: what the os.FileInfo of a node answers
NodeInfo(nd) ==
  [Name |-> nd.Name, Size |-> nd.Size, Mode |-> nd.Mode,
   IsDir |-> nd.Type = "dir"]

\* Filesystem.ReadDir: the NodeInfo of every node of the tree, in its order
fsReadDir(H, path) ==
  LET Listed(g) ==
        IF g.err # "ok" THEN [H |-> g.H, infos |-> <<>>, err |-> g.err]
        ELSE [H |-> g.H,
              infos |-> [i \in 1..Len(g.H.tree[g.t].Nodes) |->
                           NodeInfo(g.H.node[g.H.tree[g.t].Nodes[i]])],
              err |-> "ok"]
  IN Listed(getTree(H, path))

\* Filesystem.Stat
fsStatInfo(H, path) ==
  LET Found(g, n) ==
        IF n = 0 THEN [H |-> g.H, info |-> None, err |-> "ErrNotExist"]
        ELSE [H |-> g.H, info |-> Some(NodeInfo(g.H.node[n])), err |-> "ok"]
      In(g) == IF g.err # "ok" THEN [H |-> g.H, info |-> None, err |-> g.err]
               ELSE Found(g, Find(g.H, g.t, Last(path)))
  IN In(getTree(H, Front(path)))

\* Filesystem.Rename
fsRename(H, oldpath, newpath) ==
  LET To(n, g2) == IF g2.err # "ok" THEN [H |-> g2.H, err |-> g2.err]
                   ELSE nodeRename(g2.H, n, g2.t, Last(newpath))
      Node(g, n) == IF n = 0 THEN [H |-> g.H, err |-> "ErrNotExist"]
                    ELSE To(n, getTree(g.H, Front(newpath)))
      From(g) == IF g.err # "ok" THEN [H |-> g.H, err |-> g.err]
                 ELSE Node(g, Find(g.H, g.t, Last(oldpath)))
  IN From(getTree(H, Front(oldpath)))

\* Filesystem.Remove
fsRemove(H, path) ==
  LET In(g) == IF g.err # "ok" THEN [H |-> g.H, err |-> g.err]
               ELSE IF Find(g.H, g.t, Last(path)) = 0
               THEN [H |-> g.H, err |-> "ErrNotExist"]
               ELSE [H |-> Remove(g.H, g.t, Last(path)), err |-> "ok"]
  IN In(getTree(H, Front(path)))

\* Filesystem.MkdirAll
fsMkdirAll(H, path) ==
  LET Walked(r) == [H |-> r.H, err |-> r.err]
  IN Walked(walk(H, root, path, {"O_CREATE"}))

\* ----------------------------------------------------------------- commit
\* the chunker: content-defined boundaries, here every ChunkSize bytes
RECURSIVE Chunks(_)
Chunks(data) ==
  LET Cut(k) == <<SubSeq(data, 1, k)>> \o Chunks(SubSeq(data, k + 1, Len(data)))
  IN IF data = <<>> THEN <<>> ELSE Cut(Min(ChunkSize, Len(data)))

Unlimited == MaxNodes * (MaxLen + 1) + MaxTrees

\* The commit state st threads the heap H, the two blob stores, budget, the
\* number of SaveBlob calls the repository still accepts, log, the calls
\* made to the repository so far, in order, each with whether it succeeded,
\* and the Filesystem's chunker and its buffer buf.

\* chunker.New and chunker.Reset: the chunker starts on the reader given
chunkerNew(rd) == Some(rd)
chunkerReset(c, rd) == Some(rd)

\* a chunker that keeps the reader it has
chunkerFor_NoReset(c, rd) == IF c = None THEN chunkerNew(rd) ELSE c

\* the chunker resticNode.Commit reads the file with: a new one the first
\* time, the Filesystem's one, reset, from then on
chunkerFor(c, rd) == IF c = None THEN chunkerNew(rd) ELSE chunkerReset(c, rd)

\* chunker.Next: the next chunk in the buffer and the chunker after it; the
\* boundaries are those of Chunks
chunkerNext(c) ==
  [Data |-> SubSeq(c[1], 1, Min(ChunkSize, Len(c[1]))),
   chunker |-> Some(SubSeq(c[1], Min(ChunkSize, Len(c[1])) + 1, Len(c[1])))]

RECURSIVE chunkLoop(_, _, _)
\* the chunk loop saving every chunk, in the index or not
chunkLoop_NoIndexTest(st, n, blobs) ==
  LET Save(chunk, id, s1) ==
        IF s1.budget = 0
        THEN [s1 EXCEPT !.err = "ErrRepo",
                        !.log = Append(@, [op |-> "SaveData", id |-> id,
                                           ok |-> FALSE])]
        ELSE chunkLoop([s1 EXCEPT !.data = SaveBlob(@, chunk, id),
                                  !.budget = @ - 1,
                                  !.log = Append(@, [op |-> "SaveData",
                                                     id |-> id, ok |-> TRUE])],
                       n, Append(blobs, id))
      Chunk(c) ==
        Save(c.Data, Hash(c.Data),
             [st EXCEPT !.H.node[n].Size = @ + Len(c.Data),
                        !.chunker = c.chunker, !.buf = c.Data])
  IN IF st.chunker[1] = <<>>
     THEN [st EXCEPT !.H.node[n].Content = Some(blobs),
                     !.H.node[n].backing = "none",
                     !.H.node[n].data = <<>>,
                     !.H.node[n].cursor = 0]
     ELSE Chunk(chunkerNext(st.chunker))

\* the chunk loop of resticNode.Commit over the chunks left, for file n
chunkLoop(st, n, blobs) ==
  LET Save(chunk, id, s1) ==
        IF IndexHas(s1.data, id)
        THEN chunkLoop(s1, n, Append(blobs, id))
        ELSE IF s1.budget = 0
        THEN [s1 EXCEPT !.err = "ErrRepo",
                        !.log = Append(@, [op |-> "SaveData", id |-> id,
                                           ok |-> FALSE])]
        ELSE chunkLoop([s1 EXCEPT !.data = SaveBlob(@, chunk, id),
                                  !.budget = @ - 1,
                                  !.log = Append(@, [op |-> "SaveData",
                                                     id |-> id, ok |-> TRUE])],
                       n, Append(blobs, id))
      Chunk(c) ==
        Save(c.Data, Hash(c.Data),
             [st EXCEPT !.H.node[n].Size = @ + Len(c.Data),
                        !.chunker = c.chunker, !.buf = c.Data])
  IN IF st.chunker[1] = <<>>
     THEN [st EXCEPT !.H.node[n].Content = Some(blobs),
                     !.H.node[n].backing = "none",
                     !.H.node[n].data = <<>>,
                     !.H.node[n].cursor = 0]
     ELSE Chunk(chunkerNext(st.chunker))

RECURSIVE nodeCommit(_, _)
RECURSIVE nodesCommit(_, _, _)
RECURSIVE treeCommit(_, _)

\* resticNode.Commit counting the chunks on top of the size recorded before
nodeCommit_KeepSize(st, n) ==
  LET nd == st.H.node[n]
      Sub(r) == IF r.err = "ok"
                THEN [r EXCEPT !.H.node[n].Subtree = r.H.tree[nd.subtree].ID]
                ELSE r
  IN CASE nd.Type = "file" ->
            IF nd.Content # None THEN st
            ELSE IF nd.openWriters > 0 THEN [st EXCEPT !.err = "ErrInUse"]
            ELSE IF nd.backing = "none"
            THEN [st EXCEPT !.err = "panic: nil backing"]
            ELSE chunkLoop([st EXCEPT !.H.node[n].cursor = Len(nd.data),
                                      !.chunker = chunkerFor(@, nd.data)],
                           n, <<>>)
       [] nd.Type = "dir" ->
            IF nd.subtree = 0
            THEN IF nd.Subtree = None
                 THEN [st EXCEPT !.err = "panic: no data for subtree"]
                 ELSE st
            ELSE Sub(treeCommit(st, nd.subtree))
       [] OTHER -> st

\* resticNode.Commit
nodeCommit(st, n) ==
  LET nd == st.H.node[n]
      Sub(r) == IF r.err = "ok"
                THEN [r EXCEPT !.H.node[n].Subtree = r.H.tree[nd.subtree].ID]
                ELSE r
  IN CASE nd.Type = "file" ->
            IF nd.Content # None THEN st
            ELSE IF nd.openWriters > 0 THEN [st EXCEPT !.err = "ErrInUse"]
            ELSE IF nd.backing = "none"
            THEN [st EXCEPT !.H.node[n].Size = 0, !.err = "panic: nil backing"]
            ELSE chunkLoop([st EXCEPT !.H.node[n].Size = 0,
                                      !.H.node[n].cursor = Len(nd.data),
                                      !.chunker = chunkerFor(@, nd.data)],
                           n, <<>>)
       [] nd.Type = "dir" ->
            IF nd.subtree = 0
            THEN IF nd.Subtree = None
                 THEN [st EXCEPT !.err = "panic: no data for subtree"]
                 ELSE st
            ELSE Sub(treeCommit(st, nd.subtree))
       [] OTHER -> st

\* the loop of resticTree.Commit over the nodes of t, from index i on
nodesCommit(st, t, i) ==
  LET Done(r) == IF r.err # "ok" THEN r ELSE nodesCommit(r, t, i + 1)
  IN IF i > Len(st.H.tree[t].Nodes) THEN st
     ELSE Done(nodeCommit(st, st.H.tree[t].Nodes[i]))

\* json.Marshal of the tree: the restic.Node of every entry, in order
Marshal(H, t) ==
  [i \in 1..Len(H.tree[t].Nodes) |-> ResticNode(H.node[H.tree[t].Nodes[i]])]

\* resticTree.Commit that takes the tree's id without saving its blob
treeCommit_NoSave(st, t) ==
  LET Marshalled(r, data) == [r EXCEPT !.H.tree[t].ID = Some(Hash(data))]
      Nodes(r) == IF r.err # "ok" THEN r ELSE Marshalled(r, Marshal(r.H, t))
  IN IF st.H.tree[t].ID # None THEN st
     ELSE IF t \in st.open THEN [st EXCEPT !.err = "fatal: stack overflow"]
     ELSE Nodes(nodesCommit([st EXCEPT !.open = @ \cup {t}], t, 1))

\* resticTree.Commit serializing the tree whether it is dirty or not
treeCommit_NoCleanTest(st, t) ==
  LET Save(r, data, id) ==
        IF IndexHas(r.trees, id)
        THEN [r EXCEPT !.H.tree[t].ID = Some(id)]
        ELSE IF r.budget = 0
        THEN [r EXCEPT !.err = "ErrRepo",
                       !.log = Append(@, [op |-> "SaveTree", id |-> id,
                                          ok |-> FALSE])]
        ELSE [r EXCEPT !.trees = SaveBlob(@, data, id),
                       !.budget = @ - 1,
                       !.log = Append(@, [op |-> "SaveTree", id |-> id,
                                          ok |-> TRUE]),
                       !.H.tree[t].ID = Some(id)]
      Marshalled(r, data) == Save(r, data, Hash(data))
      Nodes(r) == IF r.err # "ok" THEN r ELSE Marshalled(r, Marshal(r.H, t))
  IN IF t \in st.open THEN [st EXCEPT !.err = "fatal: stack overflow"]
     ELSE Nodes(nodesCommit([st EXCEPT !.open = @ \cup {t}], t, 1))

\* resticTree.Commit; the id of a committed tree is left in its ID field.
\* st.open holds the trees whose Commit is on the call stack: a directory
\* that contains itself recurses until the goroutine stack is exhausted.
treeCommit(st, t) ==
  LET Save(r, data, id) ==
        IF IndexHas(r.trees, id)
        THEN [r EXCEPT !.H.tree[t].ID = Some(id)]
        ELSE IF r.budget = 0
        THEN [r EXCEPT !.err = "ErrRepo",
                       !.log = Append(@, [op |-> "SaveTree", id |-> id,
                                          ok |-> FALSE])]
        ELSE [r EXCEPT !.trees = SaveBlob(@, data, id),
                       !.budget = @ - 1,
                       !.log = Append(@, [op |-> "SaveTree", id |-> id,
                                          ok |-> TRUE]),
                       !.H.tree[t].ID = Some(id)]
      Marshalled(r, data) == Save(r, data, Hash(data))
      Nodes(r) == IF r.err # "ok" THEN r ELSE Marshalled(r, Marshal(r.H, t))
  IN IF st.H.tree[t].ID # None THEN st
     ELSE IF t \in st.open THEN [st EXCEPT !.err = "fatal: stack overflow"]
     ELSE Nodes(nodesCommit([st EXCEPT !.open = @ \cup {t}], t, 1))

\* how the repository treats a commit: how many SaveBlob calls it accepts,
\* and whether Flush and SaveJSONUnpacked succeed
RepoFates ==
  {[saves |-> Unlimited, flush |-> TRUE, snap |-> TRUE],
   [saves |-> 0, flush |-> TRUE, snap |-> TRUE],
   [saves |-> Unlimited, flush |-> FALSE, snap |-> TRUE],
   [saves |-> Unlimited, flush |-> TRUE, snap |-> FALSE]}

\* Filesystem.CommitSnapshot without the test of root.IsDirty
commitSnapshot_NoDirtyCheck(H, data, trees, snaps, fate) ==
  LET st0 == [H |-> H, data |-> data, trees |-> trees, snaps |-> snaps,
              budget |-> fate.saves, open |-> {}, log |-> <<>>,
              chunker |-> chunker, buf |-> <<>>, err |-> "ok"]
      Flushed(r, snap) ==
        IF ~fate.snap THEN [r EXCEPT !.err = "ErrRepo", !.log = Append(@, snap)]
        ELSE [r EXCEPT !.snaps = Append(@, [Tree |-> snap.id]),
                       !.log = Append(@, [snap EXCEPT !.ok = TRUE])]
      Committed(r) ==
        IF r.err # "ok" THEN r
        ELSE IF ~fate.flush
        THEN [r EXCEPT !.err = "ErrRepo",
                       !.log = Append(@, [op |-> "Flush", ok |-> FALSE])]
        ELSE Flushed([r EXCEPT !.log = Append(@, [op |-> "Flush",
                                                  ok |-> TRUE])],
                     [op |-> "SaveSnapshot", id |-> r.H.tree[root].ID[1],
                      ok |-> FALSE])
  IN Committed(treeCommit(st0, root))

\* Filesystem.CommitSnapshot as a function of the heap and the stores
commitSnapshot(H, data, trees, snaps, fate) ==
  LET st0 == [H |-> H, data |-> data, trees |-> trees, snaps |-> snaps,
              budget |-> fate.saves, open |-> {}, log |-> <<>>,
              chunker |-> chunker, buf |-> <<>>, err |-> "ok"]
      Flushed(r, snap) ==
        IF ~fate.snap THEN [r EXCEPT !.err = "ErrRepo", !.log = Append(@, snap)]
        ELSE [r EXCEPT !.snaps = Append(@, [Tree |-> snap.id]),
                       !.log = Append(@, [snap EXCEPT !.ok = TRUE])]
      Committed(r) ==
        IF r.err # "ok" THEN r
        ELSE IF ~fate.flush
        THEN [r EXCEPT !.err = "ErrRepo",
                       !.log = Append(@, [op |-> "Flush", ok |-> FALSE])]
        ELSE Flushed([r EXCEPT !.log = Append(@, [op |-> "Flush",
                                                  ok |-> TRUE])],
                     [op |-> "SaveSnapshot", id |-> r.H.tree[root].ID[1],
                      ok |-> FALSE])
  IN IF H.tree[root].ID # None THEN [st0 EXCEPT !.err = "ErrNoChanges"]
     ELSE Committed(treeCommit(st0, root))

\* ------------------------------------------------------------ operations
StartNewSnapshot ==
  /\ crashed = "none"
  /\ steps < MaxSteps
  /\ writable' = TRUE
  /\ UNCHANGED <<chunker, tree, node, handle, repoData, repoTrees, snapshots,
                 crashed, pristine>>
  /\ Counted

\* Filesystem.OpenFile
OpenFile(path, flag, tmpOK) ==
  /\ crashed = "none"
  /\ steps < MaxSteps
  /\ \E r \in {fsOpenFile(Heap, path, flag, tmpOK)} :
        /\ Fits(r.H)
        /\ r.err = "ok" => Len(handle) < MaxHandles
        /\ tree' = r.H.tree
        /\ node' = r.H.node
        /\ handle' = IF r.err = "ok" THEN Append(handle, r.f) ELSE handle
        /\ crashed' = IF IsPanic(r.err) THEN r.err ELSE "none"
        /\ pristine' = (pristine /\ ~(flag # {} /\ (r.err = "ok" \/ Changed(Heap, r.H))))
  /\ UNCHANGED <<chunker, writable, repoData, repoTrees, snapshots>>
  /\ Counted

\* Filesystem.TempFile
TempFile(dir, tmpOK) ==
  /\ crashed = "none"
  /\ steps < MaxSteps
  /\ \E r \in {fsTempFile(Heap, dir, tmpOK)} :
        /\ Fits(r.H)
        /\ r.err = "ok" => Len(handle) < MaxHandles
        /\ tree' = r.H.tree
        /\ node' = r.H.node
        /\ handle' = IF r.err = "ok" THEN Append(handle, r.f) ELSE handle
        /\ crashed' = IF IsPanic(r.err) THEN r.err ELSE "none"
        /\ pristine' = (pristine /\ ~(r.err = "ok" \/ Changed(Heap, r.H)))
  /\ UNCHANGED <<chunker, writable, repoData, repoTrees, snapshots>>
  /\ Counted

\* Filesystem.Rename
Rename(oldpath, newpath) ==
  /\ crashed = "none"
  /\ steps < MaxSteps
  /\ \E r \in {fsRename(Heap, oldpath, newpath)} :
        /\ Fits(r.H)
        /\ tree' = r.H.tree
        /\ node' = r.H.node
        /\ crashed' = IF IsPanic(r.err) THEN r.err ELSE "none"
        /\ pristine' = (pristine /\ ~(r.err = "ok" \/ Changed(Heap, r.H)))
  /\ UNCHANGED <<chunker, writable, handle, repoData, repoTrees, snapshots>>
  /\ Counted

\* Filesystem.Remove
FsRemove(path) ==
  /\ crashed = "none"
  /\ steps < MaxSteps
  /\ \E r \in {fsRemove(Heap, path)} :
        /\ Fits(r.H)
        /\ tree' = r.H.tree
        /\ node' = r.H.node
        /\ pristine' = (pristine /\ ~(r.err = "ok" \/ Changed(Heap, r.H)))
  /\ UNCHANGED <<chunker, writable, handle, repoData, repoTrees, snapshots, crashed>>
  /\ Counted

\* Filesystem.MkdirAll
MkdirAll(path) ==
  /\ crashed = "none"
  /\ steps < MaxSteps
  /\ \E r \in {fsMkdirAll(Heap, path)} :
        /\ Fits(r.H)
        /\ tree' = r.H.tree
        /\ node' = r.H.node
        /\ crashed' = IF IsPanic(r.err) THEN r.err ELSE "none"
        /\ pristine' = (pristine /\ ~Changed(Heap, r.H))
  /\ UNCHANGED <<chunker, writable, handle, repoData, repoTrees, snapshots>>
  /\ Counted

\* Filesystem.Stat: the subtrees on the way are loaded
Stat(path) ==
  /\ crashed = "none"
  /\ steps < MaxSteps
  /\ \E r \in {fsStatInfo(Heap, path)} :
        /\ Fits(r.H)
        /\ tree' = r.H.tree
        /\ node' = r.H.node
  /\ UNCHANGED <<chunker, writable, handle, repoData, repoTrees, snapshots, crashed,
                 pristine>>
  /\ Counted

\* Filesystem.ReadDir: the subtrees on the way are loaded
ReadDir(path) ==
  /\ crashed = "none"
  /\ steps < MaxSteps
  /\ \E r \in {fsReadDir(Heap, path)} :
        /\ Fits(r.H)
        /\ tree' = r.H.tree
        /\ node' = r.H.node
  /\ UNCHANGED <<chunker, writable, handle, repoData, repoTrees, snapshots, crashed,
                 pristine>>
  /\ Counted

\* fileHandle.Write
Write(h, p) ==
  /\ crashed = "none"
  /\ steps < MaxSteps
  /\ h <= Len(handle)
  /\ \E r \in {handleWrite(Heap, handle[h], p)} :
        /\ r.err = "ok" => node[handle[h].n].cursor + Len(p) <= MaxLen
        /\ node' = r.H.node
        /\ crashed' = IF IsPanic(r.err) THEN r.err ELSE "none"
        /\ pristine' = (pristine /\ r.err # "ok")
  /\ UNCHANGED <<chunker, writable, tree, handle, repoData, repoTrees, snapshots>>
  /\ Counted

\* fileHandle.Read
Read(h, len) ==
  /\ crashed = "none"
  /\ steps < MaxSteps
  /\ h <= Len(handle)
  /\ \E r \in {handleRead(Heap, handle[h], len)} :
        /\ handle' = [handle EXCEPT ![h].position = r.position]
        /\ crashed' = IF IsPanic(r.err) THEN r.err ELSE "none"
  /\ UNCHANGED <<chunker, writable, tree, node, repoData, repoTrees, snapshots,
                 pristine>>
  /\ Counted

\* fileHandle.Close
Close(h) ==
  /\ crashed = "none"
  /\ steps < MaxSteps
  /\ h <= Len(handle)
  /\ \E r \in {handleClose(Heap, handle[h])} :
        /\ node' = r.H.node
        /\ handle' = [handle EXCEPT ![h] = r.f]
        /\ crashed' = IF IsPanic(r.err) THEN r.err ELSE "none"
  /\ UNCHANGED <<chunker, writable, tree, repoData, repoTrees, snapshots, pristine>>
  /\ Counted

\* fileHandle.Lock
Lock(h) ==
  /\ crashed = "none"
  /\ steps < MaxSteps
  /\ h <= Len(handle)
  /\ \E r \in {handleLock(Heap, handle[h])} :
        /\ node' = r.H.node
        /\ handle' = [handle EXCEPT ![h] = r.f]
        /\ crashed' = IF IsPanic(r.err) THEN r.err ELSE "none"
  /\ UNCHANGED <<chunker, writable, tree, repoData, repoTrees, snapshots, pristine>>
  /\ Counted

\* fileHandle.Unlock
Unlock(h) ==
  /\ crashed = "none"
  /\ steps < MaxSteps
  /\ h <= Len(handle)
  /\ \E r \in {handleUnlock(Heap, handle[h])} :
        /\ node' = r.H.node
        /\ handle' = [handle EXCEPT ![h] = r.f]
        /\ crashed' = IF IsPanic(r.err) THEN r.err ELSE "none"
  /\ UNCHANGED <<chunker, writable, tree, repoData, repoTrees, snapshots, pristine>>
  /\ Counted

\* fileHandle.Truncate
Truncate(h, size) ==
  /\ crashed = "none"
  /\ steps < MaxSteps
  /\ h <= Len(handle)
  /\ \E r \in {handleTruncate(Heap, handle[h].n, size)} :
        /\ node' = r.H.node
        /\ crashed' = IF IsPanic(r.err) THEN r.err ELSE "none"
        /\ pristine' = (pristine /\ r.err # "ok")
  /\ UNCHANGED <<chunker, writable, tree, handle, repoData, repoTrees, snapshots>>
  /\ Counted

\* fileHandle.Seek
Seek(h, offset, whence) ==
  /\ crashed = "none"
  /\ steps < MaxSteps
  /\ h <= Len(handle)
  /\ \E r \in {handleSeek(Heap, handle[h], offset, whence)} :
        /\ r.f.position <= MaxLen + 1
        /\ handle' = [handle EXCEPT ![h] = r.f]
  /\ UNCHANGED <<chunker, writable, tree, node, repoData, repoTrees, snapshots,
                 crashed, pristine>>
  /\ Counted

\* Filesystem.CommitSnapshot
CommitSnapshot(fate) ==
  /\ crashed = "none"
  /\ steps < MaxSteps
  /\ \E r \in {commitSnapshot(Heap, repoData, repoTrees, snapshots, fate)} :
        /\ Len(r.snaps) <= MaxSnapshots
        /\ tree' = r.H.tree
        /\ node' = r.H.node
        /\ repoData' = r.data
        /\ repoTrees' = r.trees
        /\ snapshots' = r.snaps
        /\ chunker' = r.chunker
        /\ crashed' = IF IsPanic(r.err) THEN r.err ELSE "none"
        /\ pristine' = (r.err = "ok" \/ pristine)
  /\ UNCHANGED <<writable, handle>>
  /\ Counted

Next ==
  \/ StartNewSnapshot
  \/ \E path \in Paths, flag \in FlagSets, tmpOK \in TempFates :
       OpenFile(path, flag, tmpOK)
  \/ \E oldpath \in Paths, newpath \in Paths : Rename(oldpath, newpath)
  \/ \E path \in Paths : FsRemove(path)
  \/ \E path \in Paths : MkdirAll(path)
  \/ \E path \in Paths : Stat(path)
  \/ \E path \in Paths \cup {<<>>} : ReadDir(path)
  \/ \E h \in 1..MaxHandles, p \in Payloads : Write(h, p)
  \/ \E h \in 1..MaxHandles, len \in ReadLens : Read(h, len)
  \/ \E h \in 1..MaxHandles : Close(h)
  \/ \E fate \in RepoFates : CommitSnapshot(fate)

Spec == Init /\ [][Next]_vars

\* the calls that change what a commit finds: those of Next without the
\* reads of handles and the listings
NextCommit ==
  \/ StartNewSnapshot
  \/ \E path \in Paths, flag \in FlagSets, tmpOK \in TempFates :
       OpenFile(path, flag, tmpOK)
  \/ \E oldpath \in Paths, newpath \in Paths : Rename(oldpath, newpath)
  \/ \E path \in Paths : FsRemove(path)
  \/ \E path \in Paths : MkdirAll(path)
  \/ \E h \in 1..MaxHandles, p \in Payloads : Write(h, p)
  \/ \E h \in 1..MaxHandles : Close(h)
  \/ \E fate \in RepoFates : CommitSnapshot(fate)

SpecCommit == Init /\ [][NextCommit]_vars

\* the same calls over the deeper paths
NextDeep ==
  \/ StartNewSnapshot
  \/ \E path \in DeepPaths, flag \in FlagSets, tmpOK \in TempFates :
       OpenFile(path, flag, tmpOK)
  \/ \E dir \in TempDirs, tmpOK \in TempFates : TempFile(dir, tmpOK)
  \/ \E oldpath \in DeepPaths, newpath \in DeepPaths : Rename(oldpath, newpath)
  \/ \E path \in DeepPaths : FsRemove(path)
  \/ \E path \in DeepPaths : MkdirAll(path)
  \/ \E h \in 1..MaxHandles, p \in Payloads : Write(h, p)
  \/ \E h \in 1..MaxHandles, len \in ReadLens : Read(h, len)
  \/ \E h \in 1..MaxHandles : Close(h)
  \/ \E fate \in RepoFates : CommitSnapshot(fate)

SpecDeep == Init /\ [][NextDeep]_vars

\* the calls of Next with every method of a handle, and handles opened with
\* O_APPEND
NextHandle ==
  \/ StartNewSnapshot
  \/ \E path \in Paths, flag \in HandleFlagSets, tmpOK \in TempFates :
       OpenFile(path, flag, tmpOK)
  \/ \E oldpath \in Paths, newpath \in Paths : Rename(oldpath, newpath)
  \/ \E path \in Paths : FsRemove(path)
  \/ \E path \in Paths : MkdirAll(path)
  \/ \E h \in 1..MaxHandles, p \in Payloads : Write(h, p)
  \/ \E h \in 1..MaxHandles, len \in ReadLens : Read(h, len)
  \/ \E h \in 1..MaxHandles : Lock(h)
  \/ \E h \in 1..MaxHandles : Unlock(h)
  \/ \E h \in 1..MaxHandles, size \in TruncSizes : Truncate(h, size)
  \/ \E h \in 1..MaxHandles, offset \in SeekOffsets, whence \in Whences :
       Seek(h, offset, whence)
  \/ \E h \in 1..MaxHandles : Close(h)
  \/ \E fate \in RepoFates : CommitSnapshot(fate)

SpecHandle == Init /\ [][NextHandle]_vars

\* ---------------------------------------------- reading through the chunks
\* the data blobs of the repository read below: none, one and two bytes
ReadBlobs == {<<>>, <<1>>, <<2, 3>>}

\* the content lists of at most MaxBlobs of these blobs
ContentLists == UNION {[1..m -> ReadBlobs] : m \in 0..MaxBlobs}

\* the entry of a file f with the given blobs as its content
FileOf(blobs) ==
  [Name |-> "f", Type |-> "file", Size |-> Len(Concat(blobs)),
   Mode |-> "-rw-r--r--",
   Content |-> Some([i \in 1..Len(blobs) |-> Hash(blobs[i])]),
   Subtree |-> None]

\* a Filesystem opened with New on a snapshot whose root holds one file f
InitRead ==
  \E blobs \in ContentLists :
    /\ writable = FALSE
    /\ repoData = {[id |-> Hash(b), data |-> b] : b \in ReadBlobs}
    /\ repoTrees = {[id |-> Hash(<<FileOf(blobs)>>), data |-> <<FileOf(blobs)>>]}
    /\ snapshots = <<[Tree |-> Hash(<<FileOf(blobs)>>)]>>
    /\ tree = <<[parent |-> 0, Nodes |-> <<1>>,
                 ID |-> Some(Hash(<<FileOf(blobs)>>))]>>
    /\ node = <<newFromNode(root, FileOf(blobs))>>
    /\ handle = <<>>
    /\ crashed = "none"
    /\ chunker = None
    /\ inflight = [g \in 1..MaxCalls |-> Idle]
    /\ steps = 0
    /\ pristine = TRUE

\* opening f for reading, reading and closing
NextRead ==
  \/ \E tmpOK \in TempFates : OpenFile(<<"f">>, {}, tmpOK)
  \/ \E h \in 1..MaxHandles, len \in ReadLens : Read(h, len)
  \/ \E h \in 1..MaxHandles : Close(h)

SpecRead == InitRead /\ [][NextRead]_vars

\* ------------------------------------------------------------------ views
\* What a caller can observe of a hierarchy: for every entry its name, its
\* type, the bytes of a file and the entries of a directory.

\* the bytes a list of chunk ids reassembles to; a missing blob reads as -1
FileBytes(data, content) ==
  Concat([j \in 1..Len(content) |->
            IF IndexHas(data, content[j]) THEN LoadBlob(data, content[j])
            ELSE <<-1>>])

\* the hierarchy saved under a tree id
RECURSIVE RepoView(_, _, _)
RepoView(trees, data, id) ==
  IF ~IndexHas(trees, id) THEN [n |-> -1, entries |-> {}]
  ELSE LET rt == LoadBlob(trees, id)
       IN [n |-> Len(rt),
           entries |->
             {[Name |-> rt[i].Name, Type |-> rt[i].Type,
               bytes |-> IF rt[i].Type = "file" /\ rt[i].Content # None
                         THEN FileBytes(data, rt[i].Content[1]) ELSE <<>>,
               sub |-> IF rt[i].Type = "dir" /\ rt[i].Subtree # None
                       THEN RepoView(trees, data, rt[i].Subtree[1])
                       ELSE [n |-> 0, entries |-> {}]] : i \in 1..Len(rt)}]

\* the bytes of an in-memory file: its scratch file once it has one, its
\* saved content before that
NodeBytes(data, nd) ==
  IF nd.backing = "scratch" THEN nd.data
  ELSE IF nd.Content # None THEN FileBytes(data, nd.Content[1])
  ELSE <<>>

\* the in-memory hierarchy under tree t; a directory that was never opened
\* is its saved tree; k bounds the depth, a hierarchy deeper than the number
\* of trees holds a cycle and has no finite view
RECURSIVE MemView(_, _, _, _, _)
MemView(H, trees, data, t, k) ==
  IF k = 0 THEN [n |-> -2, entries |-> {}]
  ELSE LET ns == H.tree[t].Nodes
       IN [n |-> Len(ns),
           entries |->
             {LET nd == H.node[ns[i]]
              IN [Name |-> nd.Name, Type |-> nd.Type,
                  bytes |-> IF nd.Type = "file" THEN NodeBytes(data, nd)
                            ELSE <<>>,
                  sub |-> IF nd.Type # "dir" THEN [n |-> 0, entries |-> {}]
                          ELSE IF nd.subtree # 0
                          THEN MemView(H, trees, data, nd.subtree, k - 1)
                          ELSE IF nd.Subtree # None
                          THEN RepoView(trees, data, nd.Subtree[1])
                          ELSE [n |-> 0, entries |-> {}]] : i \in 1..Len(ns)}]

\* the nodes of a set of trees, and the trees and nodes reachable from the root
NodesOf(H, S) ==
  UNION {{H.tree[t].Nodes[i] : i \in 1..Len(H.tree[t].Nodes)} : t \in S}

RECURSIVE TreesFrom(_, _, _)
TreesFrom(H, S, k) ==
  IF k = 0 THEN S
  ELSE TreesFrom(H, S \cup ({H.node[n].subtree : n \in NodesOf(H, S)} \ {0}),
                 k - 1)

LiveNodes(H) == NodesOf(H, TreesFrom(H, {root}, Len(H.tree)))

\* the trees that hold a directory whose subtree is in S, and the trees of S
\* with every tree above them
Holders(H, S) ==
  {u \in 1..Len(H.tree) :
     \E i \in 1..Len(H.tree[u].Nodes) :
        H.node[H.tree[u].Nodes[i]].subtree \in S}

RECURSIVE UpTo(_, _, _)
UpTo(H, S, k) ==
  IF k = 0 THEN S ELSE UpTo(H, S \cup Holders(H, S), k - 1)

DirtyUp(H, S) == \A t \in UpTo(H, S, Len(H.tree)) : H.tree[t].ID = None

\* the open handles that were opened for writing on node n
Writers(n) ==
  {h \in 1..Len(handle) :
     /\ handle[h].n = n
     /\ ~handle[h].isClosed
     /\ handle[h].flag \cap oWRITEABLE # {}}

\* the node a path names, 0 when it names none or names one inside a
\* directory that is not loaded yet
Entry(H, path) ==
  LET g == getTree(H, Front(path))
      n == IF g.err = "ok" THEN Find(g.H, g.t, Last(path)) ELSE 0
  IN IF n <= Len(H.node) THEN n ELSE 0

\* whether a path names an entry, loaded or not
Exists(H, path) ==
  LET g == getTree(H, Front(path))
  IN g.err = "ok" /\ Find(g.H, g.t, Last(path)) # 0

\* whether the directory part of a path resolves
DirResolves(H, path) == getTree(H, Front(path)).err = "ok"

\* the loaded file node a path names, 0 when it names none
Target(H, path) ==
  LET n == Entry(H, path)
  IN IF n # 0 /\ H.node[n].Type = "file" THEN n ELSE 0

\* the bytes of the file at a path of a saved tree; -1 when there is none
RECURSIVE RepoRead(_, _, _, _)
RepoRead(trees, data, id, path) ==
  IF ~IndexHas(trees, id) THEN <<-1>>
  ELSE LET rt == LoadBlob(trees, id)
           hits == {i \in 1..Len(rt) : rt[i].Name = Head(path)}
           e == rt[CHOOSE i \in hits : TRUE]
       IN IF hits = {} THEN <<-1>>
          ELSE IF Len(path) = 1
          THEN IF e.Type = "file" /\ e.Content # None
               THEN FileBytes(data, e.Content[1]) ELSE <<-1>>
          ELSE IF e.Type = "dir" /\ e.Subtree # None
          THEN RepoRead(trees, data, e.Subtree[1], Tail(path))
          ELSE <<-1>>

Denied == {"ErrPermission", "ErrReadOnly"}

\* a repository that fails at no step
Reliable == [saves |-> Unlimited, flush |-> TRUE, snap |-> TRUE]

\* ----------------------------------------------------------------- claims

\* C1: whenever CommitSnapshot returns a snapshot, the tree saved under it
\* is the in-memory hierarchy at the time of the call: the same names,
\* types and nesting, and for every file the bytes of its backing.
C1_SnapshotIsHierarchy ==
  (crashed = "none" /\ writable) =>
    \A fate \in RepoFates :
      LET r == commitSnapshot(Heap, repoData, repoTrees, snapshots, fate)
      IN r.err = "ok" =>
           RepoView(r.trees, r.data, Last(r.snaps).Tree)
             = MemView(Heap, repoTrees, repoData, root, Len(tree) + 1)

\* C2: after a call that mutates an entry (write-open, create, rename,
\* remove, mkdir), every tree from the one holding the entry up to the root
\* is dirty, also when the entry was renamed before.
C2_DirtyUpToRoot ==
  (crashed = "none" /\ writable) =>
    /\ \A path \in Paths, flag \in FlagSets, tmpOK \in TempFates :
         LET r == fsOpenFile(Heap, path, flag, tmpOK)
         IN r.err = "ok" => DirtyUp(r.H, Mutated(Heap, r.H))
    /\ \A oldpath \in Paths, newpath \in Paths :
         LET r == fsRename(Heap, oldpath, newpath)
         IN r.err = "ok" => DirtyUp(r.H, Mutated(Heap, r.H))
    /\ \A path \in Paths :
         LET r == fsRemove(Heap, path)
         IN r.err = "ok" => DirtyUp(r.H, Mutated(Heap, r.H))
    /\ \A path \in Paths :
         LET r == fsMkdirAll(Heap, path)
         IN r.err = "ok" => DirtyUp(r.H, Mutated(Heap, r.H))

\* C3: a node has at most one open writer at any time, its writer count is
\* the number of its open write handles, and a write-open of a file that
\* has an open writer fails with ErrInUse.
C3_OneWriter ==
  /\ \A n \in 1..Len(node) :
       /\ Cardinality(Writers(n)) <= 1
       /\ node[n].openWriters = Cardinality(Writers(n))
  /\ crashed = "none" =>
       \A path \in Paths, flag \in FlagSets, tmpOK \in TempFates :
         LET n == Target(Heap, path)
         IN (n # 0 /\ Writers(n) # {} /\ flag \cap oWRITEABLE # {})
              => fsOpenFile(Heap, path, flag, tmpOK).err = "ErrInUse"

\* C3 witness: a file has an open writer and a second write-open of its
\* path is refused with ErrInUse.
C3_Witness ==
  /\ crashed = "none"
  /\ \E path \in Paths :
       LET n == Target(Heap, path)
       IN /\ n # 0
          /\ Cardinality(Writers(n)) = 1
          /\ fsOpenFile(Heap, path, {"O_RDWR"}, TRUE).err = "ErrInUse"

\* C4: while a file of the hierarchy has an open writer, CommitSnapshot
\* returns no snapshot and records none; with a repository that does not
\* fail, a commit that returns at all returns ErrInUse.
C4_NoCommitWithWriter ==
  (/\ crashed = "none"
   /\ writable
   /\ \E n \in LiveNodes(Heap) : node[n].Type = "file" /\ Writers(n) # {})
  => \A fate \in RepoFates :
       LET r == commitSnapshot(Heap, repoData, repoTrees, snapshots, fate)
       IN /\ r.err # "ok"
          /\ r.snaps = snapshots
          /\ (fate = Reliable /\ ~IsPanic(r.err)) => r.err = "ErrInUse"

\* C5: when CommitSnapshot fails at one of its steps (a writer is open, a
\* blob or tree cannot be saved, the flush fails, the snapshot record
\* cannot be saved), the root is still dirty afterwards and a retry does
\* not return ErrNoChanges.
C5_FailedCommitStaysDirty ==
  (crashed = "none" /\ writable) =>
    \A fate \in RepoFates :
      LET r == commitSnapshot(Heap, repoData, repoTrees, snapshots, fate)
      IN (r.err \notin {"ok", "ErrNoChanges"} /\ ~IsPanic(r.err))
           => /\ r.H.tree[root].ID = None
              /\ commitSnapshot(r.H, r.data, r.trees, r.snaps, Reliable).err
                   # "ErrNoChanges"

\* C6: an OpenFile that returns an error leaves every tree and every node
\* as it was: the lists, the dirty marks, the content, the backing and its
\* bytes, the writer counts.
C6_FailedOpenChangesNothing ==
  (crashed = "none" /\ writable) =>
    \A path \in Paths, flag \in FlagSets, tmpOK \in TempFates :
      LET r == fsOpenFile(Heap, path, flag, tmpOK)
      IN (r.err # "ok" /\ ~IsPanic(r.err)) => ~Changed(Heap, r.H)

\* the outcome of CommitSnapshot when nothing is to be saved
NothingSaved(fate) ==
  LET r == commitSnapshot(Heap, repoData, repoTrees, snapshots, fate)
  IN /\ r.err = "ErrNoChanges"
     /\ r.data = repoData
     /\ r.trees = repoTrees
     /\ r.snaps = snapshots

\* C7 as stated: with no mutating call since New (with a parent snapshot or
\* with none) or since the last successful commit, CommitSnapshot returns
\* ErrNoChanges and saves no blob and no snapshot.
C7_Original ==
  (crashed = "none" /\ pristine) => \A fate \in RepoFates : NothingSaved(fate)

\* C7: with no mutating call since New with a parent snapshot or since the
\* last successful commit, CommitSnapshot returns ErrNoChanges and saves no
\* blob and no snapshot.  (New without a parent starts from a root that was
\* never saved, and its first commit saves the empty tree.)
C7_CleanCommitsNothing ==
  (crashed = "none" /\ pristine /\ snapshots # <<>>)
    => \A fate \in RepoFates : NothingSaved(fate)

\* C7 witness: after a mutation and a successful commit, with a handle
\* opened since, the commit has nothing to save.
C7_Witness ==
  /\ crashed = "none"
  /\ pristine
  /\ Len(snapshots) >= 2
  /\ \E h \in 1..Len(handle) : handle[h].flag = {}
  /\ NothingSaved(Reliable)

\* C8: on a Filesystem that never got StartNewSnapshot, an OpenFile with a
\* write flag fails with ErrPermission and changes nothing, for a file that
\* exists and for a name that does not exist and would be created.
C8_ReadOnlyOpenDenied ==
  (crashed = "none" /\ ~writable) =>
    \A path \in Paths, flag \in FlagSets, tmpOK \in TempFates :
      (/\ flag \cap oWRITEABLE # {}
       /\ \/ Target(Heap, path) # 0
          \/ /\ "O_CREATE" \in flag
             /\ DirResolves(Heap, path)
             /\ ~Exists(Heap, path))
      => LET r == fsOpenFile(Heap, path, flag, tmpOK)
         IN r.err = "ErrPermission" /\ ~Changed(Heap, r.H)

\* C9: on a Filesystem that never got StartNewSnapshot, Rename, Remove and
\* a MkdirAll that would create a directory fail with a permission error
\* and change no tree and no node.
C9_ReadOnlyMutationsDenied ==
  (crashed = "none" /\ ~writable) =>
    /\ \A oldpath \in Paths, newpath \in Paths :
         (/\ Exists(Heap, oldpath)
          /\ DirResolves(Heap, newpath)
          /\ ~Exists(Heap, newpath))
         => LET r == fsRename(Heap, oldpath, newpath)
            IN r.err \in Denied /\ ~Changed(Heap, r.H)
    /\ \A path \in Paths :
         Exists(Heap, path)
         => LET r == fsRemove(Heap, path)
            IN r.err \in Denied /\ ~Changed(Heap, r.H)
    /\ \A path \in Paths :
         (DirResolves(Heap, path) /\ ~Exists(Heap, path))
         => LET r == fsMkdirAll(Heap, path)
            IN r.err \in Denied /\ ~Changed(Heap, r.H)

\* C10: a file was written through a handle that is closed, its bytes B
\* are not empty, and CommitSnapshot succeeds: then the file reads B on this
\* Filesystem, and the file at the same path of the new snapshot is B.
C10_CommittedBytesReadBack ==
  (crashed = "none" /\ writable) =>
    \A path \in Paths :
      LET n == Target(Heap, path)
      IN (/\ n # 0
          /\ node[n].backing = "scratch"
          /\ node[n].data # <<>>
          /\ Writers(n) = {}
          /\ \E h \in 1..Len(handle) :
               /\ handle[h].n = n
               /\ handle[h].isClosed
               /\ handle[h].flag \cap oWRITEABLE # {})
         => LET B == node[n].data
                r == commitSnapshot(Heap, repoData, repoTrees, snapshots,
                                    Reliable)
            IN r.err = "ok" =>
                 /\ NodeBytes(r.data, r.H.node[n]) = B
                 /\ RepoRead(r.trees, r.data, Last(r.snaps).Tree, path) = B

\* what a read of len bytes at pos returns from a file whose bytes are data
ReadOf(data, len, pos) ==
  LET k == IF pos >= Len(data) THEN 0 ELSE Min(len, Len(data) - pos)
  IN [bytes |-> [i \in 1..k |-> data[pos + i]],
      err |-> IF k < len THEN "EOF" ELSE "ok"]

\* the open read-only handles of node n that are older than a write handle
\* of n
ReadersBeforeWriter(n) ==
  {h \in 1..Len(handle) :
     /\ handle[h].n = n
     /\ ~handle[h].isClosed
     /\ handle[h].flag \cap oWRITEABLE = {}
     /\ \E w \in (h + 1)..Len(handle) :
          handle[w].n = n /\ handle[w].flag \cap oWRITEABLE # {}}

\* C11: once a writer's open has put a file on its scratch backing, a
\* read-only handle opened before reads the scratch file: ReadAt returns the
\* bytes the writer has written, and Read at a position at or beyond the new
\* length returns EOF and no byte.
C11_ReaderFollowsPromotion ==
  crashed = "none" =>
    \A n \in 1..Len(node) :
      node[n].backing = "scratch" =>
        \A h \in ReadersBeforeWriter(n) :
          /\ \A len \in ReadLens, pos \in 0..MaxLen :
               handleReadAt(Heap, handle[h], len, pos)
                 = ReadOf(node[n].data, len, pos)
          /\ \A len \in ReadLens :
               handle[h].position >= Len(node[n].data)
                 => LET r == handleRead(Heap, handle[h], len)
                    IN r.err = "EOF" /\ r.bytes = <<>>

\* C11 witness: a reader has read the saved byte, then a writer's open has
\* promoted and truncated the file: the reader's next Read returns EOF, and
\* a byte the writer writes now is the byte the reader's ReadAt returns.
C11_Witness ==
  /\ crashed = "none"
  /\ writable
  /\ \E n \in 1..Len(node) :
       /\ node[n].backing = "scratch"
       /\ node[n].data = <<>>
       /\ Writers(n) # {}
       /\ \E h \in ReadersBeforeWriter(n) :
            /\ handle[h].position = 1
            /\ handleRead(Heap, handle[h], 1).err = "EOF"
            /\ handleReadAt([Heap EXCEPT !.node[n] = scratchWrite(@, <<2>>)],
                            handle[h], 1, 0).bytes = <<2>>

\* the files at a path that a writer has open with written bytes not yet
\* committed
WriteInProgress(path) ==
  LET n == Target(Heap, path)
  IN /\ n # 0
     /\ Writers(n) # {}
     /\ node[n].backing = "scratch"
     /\ node[n].data # <<>>

\* C12 as stated: while a writer has a file open with written bytes not yet
\* committed, a new read-only open of the file reads the bytes the file has
\* in the last snapshot.
C12_Original ==
  (crashed = "none" /\ writable /\ snapshots # <<>>) =>
    \A path \in Paths :
      LET committed == RepoRead(repoTrees, repoData, Last(snapshots).Tree, path)
      IN (WriteInProgress(path) /\ committed # <<-1>>)
         => LET r == fsOpenFile(Heap, path, {}, TRUE)
            IN /\ r.err = "ok"
               /\ handleRead(r.H, r.f, MaxLen + 1).bytes = committed

\* C12: while a writer has a file open with written bytes not yet
\* committed, a new read-only open of the file succeeds, changes nothing and
\* reads the writer's bytes: the node has one backing, the scratch file.
C12_NewReaderSeesScratch ==
  (crashed = "none" /\ writable) =>
    \A path \in Paths :
      WriteInProgress(path)
      => LET r == fsOpenFile(Heap, path, {}, TRUE)
         IN /\ r.err = "ok"
            /\ ~Changed(Heap, r.H)
            /\ \A len \in ReadLens :
                 handleRead(r.H, r.f, len)
                   = [bytes |-> ReadOf(node[Target(Heap, path)].data, len, 0).bytes,
                      position |-> Min(len, Len(node[Target(Heap, path)].data)),
                      err |-> "ok"]

\* C12 witness: the file f of the parent snapshot holds 1 there, a writer has
\* written 2, and a new read-only handle reads 2.
C12_Witness ==
  /\ crashed = "none"
  /\ writable
  /\ snapshots # <<>>
  /\ WriteInProgress(<<"f">>)
  /\ RepoRead(repoTrees, repoData, Last(snapshots).Tree, <<"f">>) = <<1>>
  /\ LET r == fsOpenFile(Heap, <<"f">>, {}, TRUE)
     IN r.err = "ok" /\ handleRead(r.H, r.f, 1).bytes = <<2>>

\* whether path a is path b or one of the directories above it
IsPrefix(a, b) == Len(a) <= Len(b) /\ SubSeq(b, 1, Len(a)) = a

\* the trees whose list holds node n
Listings(H, n) ==
  {t \in 1..Len(H.tree) : \E i \in 1..Len(H.tree[t].Nodes) : H.tree[t].Nodes[i] = n}

\* the entries of tree t other than node n
Others(H, t, n) == {H.tree[t].Nodes[i] : i \in 1..Len(H.tree[t].Nodes)} \ {n}

\* the heap with the directories of both paths loaded, as Filesystem.Rename
\* has it when it calls resticNode.Rename
Resolved(H, oldpath, newpath) ==
  LET Second(g) == IF g.err = "ok" THEN getTree(g.H, Front(newpath)).H ELSE g.H
  IN Second(getTree(H, Front(oldpath)))

\* Filesystem.Stat: the node a path names, or the error
fsStat(H, path) ==
  LET Found(g, n) == IF n = 0 THEN [n |-> 0, err |-> "ErrNotExist"]
                     ELSE [n |-> n, err |-> "ok"]
      In(g) == IF g.err # "ok" THEN [n |-> 0, err |-> g.err]
               ELSE Found(g, Find(g.H, g.t, Last(path)))
  IN In(getTree(H, Front(path)))

\* C13: after a Rename that returns nil, Stat of the old path fails with
\* ErrNotExist, Stat of the new path gives the moved node under its new
\* name, the node is in the list of exactly one tree, and every tree holds
\* its other entries unchanged; for a node renamed before as for any other.
C13_RenameMovesOneEntry ==
  (crashed = "none" /\ writable) =>
    \A oldpath \in Paths, newpath \in Paths :
      ~IsPrefix(oldpath, newpath) =>
        LET H0 == Resolved(Heap, oldpath, newpath)
            n == fsStat(Heap, oldpath).n
            r == fsRename(Heap, oldpath, newpath)
        IN r.err = "ok" =>
             /\ fsStat(r.H, oldpath).err = "ErrNotExist"
             /\ fsStat(r.H, newpath) = [n |-> n, err |-> "ok"]
             /\ r.H.node[n].Name = Last(newpath)
             /\ Cardinality(Listings(r.H, n)) = 1
             /\ \A t \in 1..Len(H0.tree) :
                  /\ Others(r.H, t, n) = Others(H0, t, n)
                  /\ \A m \in Others(H0, t, n) : r.H.node[m] = H0.node[m]

\* the type of the entry a path names, "none" when it names no entry
StatType(H, path) ==
  LET Found(g, n) == IF n = 0 THEN "none" ELSE g.H.node[n].Type
      In(g) == IF g.err # "ok" THEN "none"
               ELSE Found(g, Find(g.H, g.t, Last(path)))
  IN In(getTree(H, Front(path)))

\* whether a directory component of the path names an entry that is not a
\* directory
NotDirOnPath(H, path) ==
  \E k \in 1..(Len(path) - 1) : StatType(H, SubSeq(path, 1, k)) \notin {"none", "dir"}

C15_RenameReplaces ==
  (crashed = "none" /\ writable) =>
    \A oldpath \in Paths, newpath \in Paths :
      (/\ oldpath # newpath
       /\ StatType(Heap, oldpath) = "file"
       /\ StatType(Heap, newpath) \notin {"none", "dir"})
      => LET r == fsRename(Heap, oldpath, newpath)
         IN /\ r.err = "ok"
            /\ fsStat(r.H, newpath) = [n |-> fsStat(Heap, oldpath).n, err |-> "ok"]
            /\ fsStat(r.H, oldpath).err = "ErrNotExist"

\* the trees on the way from the root to the directory of a path, the root
\* and that directory included
RECURSIVE Chain(_, _, _)
Chain(H, t, comps) ==
  IF comps = <<>> THEN {t}
  ELSE {t} \cup Chain(H, H.node[Find(H, t, Head(comps))].subtree, Tail(comps))

\* C16 (over the deeper paths): Remove of a path that names an entry
\* returns nil and removes that entry and no other: Stat of the path then
\* fails with ErrNotExist, every tree holds its other entries unchanged, and
\* every tree from the entry's directory up to the root is dirty.  Remove of
\* a path that names no entry fails with ErrNotExist and changes nothing.
C16_RemoveOneEntry ==
  (crashed = "none" /\ writable) =>
    \A path \in DeepPaths :
      LET H0 == getTree(Heap, Front(path)).H
          n == fsStat(Heap, path).n
          r == fsRemove(Heap, path)
      IN /\ Exists(Heap, path)
              => /\ r.err = "ok"
                 /\ fsStat(r.H, path).err = "ErrNotExist"
                 /\ \A t \in 1..Len(H0.tree) :
                      /\ Others(r.H, t, n) = Others(H0, t, n)
                      /\ \A m \in Others(H0, t, n) : r.H.node[m] = H0.node[m]
                 /\ \A t \in Chain(H0, root, Front(path)) : r.H.tree[t].ID = None
         /\ (DirResolves(Heap, path) /\ ~Exists(Heap, path))
              => r.err = "ErrNotExist" /\ ~Changed(Heap, r.H)

\* C17 (over the deeper paths): in every state the names of the entries of
\* each tree are pairwise distinct.
C17_NamesDistinct ==
  crashed = "none" =>
    \A t \in 1..Len(tree) :
      \A i, j \in 1..Len(tree[t].Nodes) :
        node[tree[t].Nodes[i]].Name = node[tree[t].Nodes[j]].Name => i = j

\* the paths of the directories of a path and the path itself
Prefixes(path) == {SubSeq(path, 1, k) : k \in 1..Len(path)}

\* C18: on a writable Filesystem, MkdirAll of a path with a component that
\* names an entry that is not a directory (the path of a file, or a path
\* below a file) fails with ErrNotDirectory, adds no entry and marks no tree
\* dirty; MkdirAll of any other path returns nil, and afterwards the path
\* and every directory above it name a directory.
C18_MkdirAll ==
  (crashed = "none" /\ writable) =>
    \A path \in Paths :
      LET r == fsMkdirAll(Heap, path)
      IN IF \E q \in Prefixes(path) : StatType(Heap, q) \notin {"none", "dir"}
         THEN /\ r.err = "ErrNotDirectory"
              /\ ~Changed(Heap, r.H)
              /\ MemView(r.H, repoTrees, repoData, root, Len(r.H.tree) + 1)
                   = MemView(Heap, repoTrees, repoData, root, Len(tree) + 1)
         ELSE /\ r.err = "ok"
              /\ \A q \in Prefixes(path) : StatType(r.H, q) = "dir"

\* C18 witness: d/f is a file and f does not exist: MkdirAll of d/f fails
\* with ErrNotDirectory, MkdirAll of f creates the directory.
C18_Witness ==
  /\ crashed = "none"
  /\ writable
  /\ StatType(Heap, <<"d", "f">>) = "file"
  /\ StatType(Heap, <<"f">>) = "none"
  /\ fsMkdirAll(Heap, <<"d", "f">>).err = "ErrNotDirectory"
  /\ fsMkdirAll(Heap, <<"f">>).err = "ok"
  /\ StatType(fsMkdirAll(Heap, <<"f">>).H, <<"f">>) = "dir"

\* whether a directory above the path is missing and none of them is an
\* entry of another type
AncestorMissing(H, path) ==
  /\ \E q \in Prefixes(Front(path)) : StatType(H, q) = "none"
  /\ \A q \in Prefixes(Front(path)) : StatType(H, q) \in {"none", "dir"}

\* C19: on a writable Filesystem, OpenFile with O_CREATE of a path with a
\* missing directory above it creates the missing directories and the file
\* and returns a handle; without O_CREATE the call fails with ErrNotExist.
C19_CreateMakesDirectories ==
  (crashed = "none" /\ writable) =>
    \A path \in Paths, flag \in FlagSets :
      AncestorMissing(Heap, path) =>
        LET r == fsOpenFile(Heap, path, flag, TRUE)
        IN IF "O_CREATE" \in flag
           THEN /\ r.err = "ok"
                /\ StatType(r.H, path) = "file"
                /\ \A q \in Prefixes(Front(path)) : StatType(r.H, q) = "dir"
           ELSE r.err = "ErrNotExist"

\* C20 (over the deeper paths): on a writable Filesystem TempFile returns a
\* handle open for writing, on a file whose name no entry of the hierarchy
\* had, and leaves the hierarchy of the root and its subtrees and the root's
\* dirty mark as they were; on a Filesystem that is not writable it fails
\* with ErrPermission and changes nothing.
C20_TempFileOutsideHierarchy ==
  crashed = "none" =>
    \A dir \in TempDirs :
      LET r == fsTempFile(Heap, dir, TRUE)
      IN IF writable
         THEN /\ r.err = "ok"
              /\ r.f.flag \cap oWRITEABLE # {}
              /\ MemView(r.H, repoTrees, repoData, root, Len(r.H.tree) + 1)
                   = MemView(Heap, repoTrees, repoData, root, Len(tree) + 1)
              /\ r.H.tree[root].ID = tree[root].ID
         ELSE r.err = "ErrPermission" /\ ~Changed(Heap, r.H)

\* ------------------------------------------------- the methods of a handle
\* the handles that were closed
ClosedHandles == {h \in 1..Len(handle) : handle[h].isClosed}

\* C21: once Close has returned successfully, every later call on the handle
\* (Read, ReadAt, Write, Seek, Truncate, Lock, Unlock, Close) fails with
\* ErrClosed and changes neither the handle, nor the node, its backing, its
\* lock or its count of open writers.
C21_ClosedHandleIsDead ==
  crashed = "none" =>
    \A h \in ClosedHandles :
      /\ \A len \in ReadLens :
           /\ handleRead(Heap, handle[h], len) =
                [bytes |-> <<>>, position |-> handle[h].position,
                 err |-> "ErrClosed"]
           /\ \A pos \in 0..MaxLen :
                handleReadAt(Heap, handle[h], len, pos) =
                  [bytes |-> <<>>, err |-> "ErrClosed"]
      /\ \A p \in Payloads :
           handleWrite(Heap, handle[h], p) = [H |-> Heap, err |-> "ErrClosed"]
      /\ \A offset \in SeekOffsets, whence \in Whences :
           handleSeek(Heap, handle[h], offset, whence) =
             [f |-> handle[h], err |-> "ErrClosed"]
      /\ \A size \in TruncSizes :
           handleTruncate(Heap, handle[h].n, size) =
             [H |-> Heap, err |-> "ErrClosed"]
      /\ handleLock(Heap, handle[h]) =
           [H |-> Heap, f |-> handle[h], err |-> "ErrClosed"]
      /\ handleUnlock(Heap, handle[h]) =
           [H |-> Heap, f |-> handle[h], err |-> "ErrClosed"]
      /\ handleClose(Heap, handle[h]) =
           [H |-> Heap, f |-> handle[h], err |-> "ErrClosed"]

\* C22: Lock and Unlock are idempotent per handle. Lock on a handle that
\* holds the lock returns at once and leaves the lock held once; Unlock on a
\* handle that does not hold it returns and changes nothing: the caller does
\* not wait, the process does not abort, and a lock held through another
\* handle stays held.
C22_LockIdempotent ==
  crashed = "none" =>
    \A h \in 1..Len(handle) \ ClosedHandles :
      IF handle[h].isLocked
      THEN handleLock(Heap, handle[h]) =
             [H |-> Heap, f |-> handle[h], err |-> "ok"]
      ELSE handleUnlock(Heap, handle[h]) =
             [H |-> Heap, f |-> handle[h], err |-> "ok"]

\* C23: Write on a handle that is not closed fails with ErrPermission when
\* the handle was opened without a write flag; on a handle opened with
\* O_APPEND it returns an error value saying that appending is not
\* implemented, and changes neither the node nor its backing; otherwise the
\* bytes go to the backing the node has at the time of the call, whose answer
\* is the answer of Write.
C23_WriteChecks ==
  crashed = "none" =>
    \A h \in 1..Len(handle) \ ClosedHandles : \A p \in Payloads :
      LET f == handle[h]
          Answer(r) ==
            IF f.flag \cap oWRITEABLE = {}
            THEN r = [H |-> Heap, err |-> "ErrPermission"]
            ELSE IF "O_APPEND" \in f.flag
            THEN r.H = Heap /\ r.err = "ErrUnimplemented"
            ELSE CASE node[f.n].backing = "scratch" ->
                        r = [H |-> [Heap EXCEPT !.node[f.n] =
                                      scratchWrite(@, p)],
                             err |-> "ok"]
                   [] node[f.n].backing = "ro" ->
                        r = [H |-> Heap, err |-> "ErrPermission"]
                   [] OTHER -> TRUE
      IN Answer(handleWrite(Heap, f, p))

\* the open handles on node n, readers and writers
OpenOn(n) == {h \in 1..Len(handle) : handle[h].n = n /\ ~handle[h].isClosed}

\* the trees whose Commit a CommitSnapshot reaches: the dirty root, and the
\* loaded subtrees of the directories of a tree it reaches that are dirty
Reached(H) ==
  {t \in 1..Len(H.tree) :
     /\ root \in UpTo(H, {t}, Len(H.tree))
     /\ DirtyUp(H, {t})}

\* C24: Commit of a file node that has uncommitted content fails with
\* ErrInUse whenever a handle on the file is open, a handle opened for
\* reading as well as a writer; a CommitSnapshot that reaches the file then
\* fails with ErrInUse and saves no snapshot.
C24_NoCommitWithOpenHandle ==
  crashed = "none" =>
    \A n \in 1..Len(node) :
      (node[n].Type = "file" /\ node[n].Content = None /\ OpenOn(n) # {}) =>
        /\ nodeCommit([H |-> Heap, data |-> repoData, trees |-> repoTrees,
                       snaps |-> snapshots, budget |-> Unlimited,
                       open |-> {}, log |-> <<>>, chunker |-> chunker,
                       buf |-> <<>>, err |-> "ok"],
                      n).err = "ErrInUse"
        /\ n \in NodesOf(Heap, Reached(Heap)) =>
             LET Failed(r) ==
                   ~IsPanic(r.err) =>
                      r.err = "ErrInUse" /\ r.snaps = snapshots
             IN Failed(commitSnapshot(Heap, repoData, repoTrees, snapshots,
                                      Reliable))

\* ------------------------------------------------- the calls of a commit
\* the ids of the blobs that the calls before the i-th of the log saved
SavedBefore(log, i, op) ==
  {log[j].id : j \in {k \in 1..(i - 1) : log[k].op = op /\ log[k].ok}}

\* C25: a commit calls SaveBlob for a data chunk, and for a tree blob, only
\* when the index does not have the blob's id at that moment, the index
\* having every blob of the repository and every blob saved so far. So a
\* chunk that occurs twice, in one commit or in a later one, is saved at
\* most once, and content already in the repository saves no data blob.
C25_SaveOnlyUnknown ==
  crashed = "none" =>
    \A fate \in RepoFates :
      LET Dedup(r) ==
            \A i \in 1..Len(r.log) :
              /\ r.log[i].op = "SaveData" =>
                   /\ ~IndexHas(repoData, r.log[i].id)
                   /\ r.log[i].id \notin SavedBefore(r.log, i, "SaveData")
              /\ r.log[i].op = "SaveTree" =>
                   /\ ~IndexHas(repoTrees, r.log[i].id)
                   /\ r.log[i].id \notin SavedBefore(r.log, i, "SaveTree")
      IN Dedup(commitSnapshot(Heap, repoData, repoTrees, snapshots, fate))

\* a commit succeeds on a dirty file whose chunks are all in the repository,
\* and saves no data blob, while a new snapshot is recorded
C25_Witness ==
  /\ crashed = "none"
  /\ \E n \in NodesOf(Heap, Reached(Heap)) :
       /\ node[n].Type = "file" /\ node[n].Content = None
       /\ node[n].data # <<>>
       /\ \A i \in 1..Len(Chunks(node[n].data)) :
            IndexHas(repoData, Hash(Chunks(node[n].data)[i]))
  /\ LET Skipped(r) ==
           /\ r.err = "ok"
           /\ Len(r.snaps) = Len(snapshots) + 1
           /\ \A i \in 1..Len(r.log) : r.log[i].op # "SaveData"
     IN Skipped(commitSnapshot(Heap, repoData, repoTrees, snapshots, Reliable))

\* the entries of the tree blob that the i-th call of the log saved
TreeSaved(r, i) == LoadBlob(r.trees, r.log[i].id)

\* whether the blobs that entry e of a tree refers to were in the repository
\* before the commit or were saved by a call before the i-th
RefsSaved(r, i, e) ==
  /\ e.Content # None =>
       \A c \in 1..Len(e.Content[1]) :
         \/ IndexHas(repoData, e.Content[1][c])
         \/ e.Content[1][c] \in SavedBefore(r.log, i, "SaveData")
  /\ e.Subtree # None =>
       \/ IndexHas(repoTrees, e.Subtree[1])
       \/ e.Subtree[1] \in SavedBefore(r.log, i, "SaveTree")

\* C26: CommitSnapshot writes bottom-up and the snapshot record last. When a
\* tree blob is saved, every data blob and every tree blob that its entries
\* refer to is in the repository, saved earlier or found in the index; Flush
\* is called only after the commit of the root succeeded, so after every
\* SaveBlob, all of them successful; the snapshot record is saved only
\* after a successful Flush, as the last call, when the root's tree blob is
\* in the repository, and its tree is the id of the root as committed.
C26_BottomUpSnapshotLast ==
  crashed = "none" =>
    \A fate \in RepoFates :
      LET Ordered(r) ==
            \A i \in 1..Len(r.log) :
              /\ (r.log[i].op = "SaveTree" /\ r.log[i].ok) =>
                   \A k \in 1..Len(TreeSaved(r, i)) :
                     RefsSaved(r, i, TreeSaved(r, i)[k])
              /\ r.log[i].op = "Flush" =>
                   /\ r.H.tree[root].ID # None
                   /\ \A j \in 1..Len(r.log) :
                        r.log[j].op \in {"SaveData", "SaveTree"} =>
                          j < i /\ r.log[j].ok
              /\ r.log[i].op = "SaveSnapshot" =>
                   /\ i = Len(r.log) /\ i > 1
                   /\ r.log[i - 1] = [op |-> "Flush", ok |-> TRUE]
                   /\ r.log[i].id = Hash(Marshal(r.H, root))
                   /\ IndexHas(r.trees, r.log[i].id)
                   /\ r.log[i].ok => Last(r.snaps).Tree = r.log[i].id
          Recorded(r) ==
            IF r.log # <<>> /\ Last(r.log).op = "SaveSnapshot" /\ Last(r.log).ok
            THEN r.err = "ok" /\ Front(r.snaps) = snapshots
            ELSE r.err # "ok" /\ r.snaps = snapshots
          Both(r) == Ordered(r) /\ Recorded(r)
      IN Both(commitSnapshot(Heap, repoData, repoTrees, snapshots, fate))

\* a commit that saves a data blob, then the tree of the directory whose
\* file refers to it, then the root's tree that refers to that tree, then
\* flushes and saves the snapshot
C26_Witness ==
  /\ crashed = "none"
  /\ LET InOrder(r) ==
           /\ r.err = "ok"
           /\ Len(r.log) = 5
           /\ r.log[1].op = "SaveData" /\ r.log[2].op = "SaveTree"
           /\ r.log[3].op = "SaveTree" /\ r.log[4].op = "Flush"
           /\ r.log[5].op = "SaveSnapshot"
           /\ \E k \in 1..Len(TreeSaved(r, 2)) :
                TreeSaved(r, 2)[k].Content = Some(<<r.log[1].id>>)
           /\ \E k \in 1..Len(TreeSaved(r, 3)) :
                TreeSaved(r, 3)[k].Subtree = Some(r.log[2].id)
           /\ Last(r.snaps).Tree = r.log[3].id
     IN InOrder(commitSnapshot(Heap, repoData, repoTrees, snapshots, Reliable))

\* ------------------------------------------------------ the chunk view
\* the bytes of the blobs of a content list, in order
BlobsOf(content) == Concat([i \in 1..Len(content) |-> LoadBlob(repoData, content[i])])

\* C27: ReadAt on the chunk view of a file, whatever its content list (an
\* empty list and zero-length blobs included), for every buffer length and
\* every offset from 0 to the file's size, returns n = min(len, size - off)
\* bytes, the bytes off..off+n of the concatenation of the blobs, and
\* reports EOF exactly when n < len.
C27_ReadAtIsSlice ==
  \A n \in 1..Len(node) :
    (node[n].Type = "file" /\ node[n].Content # None
                           /\ newResticFileOK(node[n])) =>
      \A len \in 0..(node[n].Size + 1), off \in 0..node[n].Size :
        LET all == BlobsOf(node[n].Content[1])
            k == Min(len, Len(all) - off)
        IN roReadAt(node[n], len, off) =
             [bytes |-> SubSeq(all, off + 1, off + k), eof |-> k < len]

\* a handle has read two bytes of a file whose second blob is empty: the
\* bytes came from the first blob and from the third
C27_Witness ==
  \E h \in 1..Len(handle) :
    LET nd == node[handle[h].n]
    IN /\ handle[h].position = 2
       /\ nd.backing = "ro"
       /\ nd.Content = Some(<<Hash(<<1>>), Hash(<<>>), Hash(<<2, 3>>)>>)
       /\ roReadAt(nd, 2, 0) = [bytes |-> <<1, 2>>, eof |-> FALSE]
       /\ roReadAt(nd, 2, 3) = [bytes |-> <<>>, eof |-> TRUE]

\* C28: no sequence of calls of the public methods ends in a panic on a
\* programming invariant: neither the panic of addNode on a name the tree
\* already has, nor the panic of a directory's Commit that finds neither a
\* loaded subtree nor a saved one.
C28_NoInvariantPanic ==
  crashed \notin {"panic: conflicting name", "panic: no data for subtree"}

\* ------------------------------------------------ listing a snapshot
\* what a snapshot records for the directory a path names: the NodeInfo of
\* the entries of its tree blob, in the blob's order
RECURSIVE Recorded(_, _)
Recorded(id, path) ==
  LET rt == LoadBlob(repoTrees, id)
      Into(hits) ==
        IF hits = {} THEN [infos |-> <<>>, err |-> "ErrNotExist"]
        ELSE IF \E i \in hits : rt[i].Type # "dir"
        THEN [infos |-> <<>>, err |-> "ErrNotDirectory"]
        ELSE Recorded(rt[CHOOSE i \in hits : TRUE].Subtree[1], Tail(path))
  IN IF path = <<>>
     THEN [infos |-> [i \in 1..Len(rt) |-> NodeInfo(rt[i])], err |-> "ok"]
     ELSE Into({i \in 1..Len(rt) : rt[i].Name = Head(path)})

\* what a snapshot records for the entry a path names
RecordedEntry(id, path) ==
  LET Among(d) ==
        IF d.err # "ok" THEN [info |-> None, err |-> d.err]
        ELSE IF \E i \in 1..Len(d.infos) : d.infos[i].Name = Last(path)
        THEN [info |-> Some(d.infos[CHOOSE i \in 1..Len(d.infos) :
                                      d.infos[i].Name = Last(path)]),
              err |-> "ok"]
        ELSE [info |-> None, err |-> "ErrNotExist"]
  IN Among(Recorded(id, Front(path)))

\* a second Filesystem that New opens on the snapshot
Fresh(id) == openTree([tree |-> <<>>, node |-> <<>>], 0, id).H

\* what a call answers, apart from the heap it leaves
Outcome(r) == [f \in DOMAIN r \ {"H"} |-> r[f]]

ChunkIDs(data) == [i \in 1..Len(Chunks(data)) |-> Hash(Chunks(data)[i])]

\* the files that a commit chunked: without content before, with content after
Chunked(r) ==
  {n \in 1..Len(node) :
     node[n].Type = "file" /\ node[n].Content = None
                           /\ r.H.node[n].Content # None}

\* C30: the list of chunk ids that a commit gives a file is a function of
\* the file's bytes alone: whatever the Filesystem's chunker and buffer
\* were used for before, in this commit or in an earlier one, the same bytes
\* get the same ids in the same order.
C30_ChunkingDeterministic ==
  crashed = "none" =>
    \A fate \in RepoFates :
      LET Same(r) ==
            \A n \in Chunked(r) :
              /\ r.H.node[n].Content = Some(ChunkIDs(node[n].data))
              /\ \A m \in Chunked(r) :
                   node[m].data = node[n].data =>
                     r.H.node[m].Content = r.H.node[n].Content
      IN Same(commitSnapshot(Heap, repoData, repoTrees, snapshots, fate))

\* a commit, after an earlier one that used the chunker, chunks a file whose
\* bytes the repository has as a chunk, and gives it that chunk's id
C30_Witness ==
  /\ crashed = "none"
  /\ chunker # None
  /\ Len(snapshots) >= 2
  /\ LET Again(r) ==
           /\ r.err = "ok"
           /\ \E n \in Chunked(r) :
                /\ node[n].data # <<>>
                /\ IndexHas(repoData, Hash(node[n].data))
                /\ r.H.node[n].Content = Some(<<Hash(node[n].data)>>)
     IN Again(commitSnapshot(Heap, repoData, repoTrees, snapshots, Reliable))

\* ------------------------------------------------ content and backing
\* C31: for every file node, a scratch backing is installed only while
\* Content is nil (the file has uncommitted modifications) and the chunk
\* view only while Content is set, the node having one backing at most; and
\* opening an existing committed file without a write flag neither clears
\* its Content nor marks a tree dirty.
C31_ContentAndBacking ==
  crashed = "none" =>
    /\ \A n \in 1..Len(node) :
         node[n].Type = "file" =>
           /\ node[n].backing \in {"none", "ro", "scratch"}
           /\ node[n].backing = "scratch" => node[n].Content = None
           /\ node[n].backing = "ro" => node[n].Content # None
           /\ node[n].Content # None => node[n].data = <<>>
    /\ \A path \in Paths, tmpOK \in TempFates :
         LET n == Entry(Heap, path)
             Kept(r) ==
               /\ r.H.node[n].Content = node[n].Content
               /\ \A t \in 1..Len(tree) : r.H.tree[t].ID = tree[t].ID
         IN (n # 0 /\ node[n].Type = "file" /\ node[n].Content # None) =>
              Kept(fsOpenFile(Heap, path, {}, tmpOK))

\* a committed file is open through a handle without write flags, its chunk
\* view installed and every tree above it still clean
C31_Witness ==
  /\ crashed = "none"
  /\ \E h \in 1..Len(handle) :
       /\ ~handle[h].isClosed
       /\ handle[h].flag = {}
       /\ node[handle[h].n].backing = "ro"
       /\ node[handle[h].n].Content # None
       /\ tree[root].ID # None

\* ------------------------------------------------------ parent links
\* the (tree, index) places where node n is listed
Places(H, n) ==
  {<<t, i>> \in (1..Len(H.tree)) \X (1..MaxNodes) :
     i <= Len(H.tree[t].Nodes) /\ H.tree[t].Nodes[i] = n}

\* C32: every node reachable from the root is listed exactly once, in
\* exactly one tree, and its parent link names that tree; every loaded
\* subtree's parent link names the tree that lists its directory node.
C32_ParentLinks ==
  crashed = "none" =>
    \A n \in LiveNodes(Heap) :
      /\ Cardinality(Places(Heap, n)) = 1
      /\ \A pl \in Places(Heap, n) :
           /\ node[n].parent = pl[1]
           /\ node[n].subtree # 0 => tree[node[n].subtree].parent = pl[1]

\* ------------------------------------------- handles across a commit
\* C33: no Read, Write or Truncate through a handle that is not closed finds
\* its node without a backing, a commit before it included.
C33_BackingPresent ==
  crashed = "none" =>
    \A h \in 1..Len(handle) :
      ~handle[h].isClosed =>
        /\ handleRead(Heap, handle[h], 1).err # "panic: nil backing"
        /\ handleTruncate(Heap, handle[h].n, 0).err # "panic: nil backing"
        /\ \A p \in Payloads :
             handleWrite(Heap, handle[h], p).err # "panic: nil backing"

\* ------------------------------------------------------ writer count
\* fileHandle.Close runs without fs.mu, so its statements interleave with the
\* calls that hold it and with the Close of another goroutine. CloseEnter is
\* the isClosed test (and the Unlock of a locked handle).
CloseEnter(g, h) ==
  /\ crashed = "none"
  /\ steps < MaxSteps
  /\ h <= Len(handle)
  /\ inflight[g] = Idle
  /\ ~handle[h].isClosed
  /\ \E u \in {IF handle[h].isLocked THEN handleUnlock(Heap, handle[h])
               ELSE [H |-> Heap, f |-> handle[h], err |-> "ok"]} :
        /\ node' = u.H.node
        /\ handle' = [handle EXCEPT ![h] = u.f]
        /\ crashed' = IF IsPanic(u.err) THEN u.err ELSE "none"
        /\ inflight' = IF u.err = "ok"
                       THEN [inflight EXCEPT ![g] = [Idle EXCEPT !.op = "Close",
                                                                !.h = h,
                                                                !.pc = "mark"]]
                       ELSE inflight
  /\ steps' = steps + 1
  /\ UNCHANGED <<chunker, writable, tree, repoData, repoTrees, snapshots,
                 pristine>>

\* f.isClosed = true; a handle without a write flag is done
CloseMark(g) ==
  /\ crashed = "none"
  /\ inflight[g].op = "Close"
  /\ inflight[g].pc = "mark"
  /\ handle' = [handle EXCEPT ![inflight[g].h].isClosed = TRUE]
  /\ inflight' = [inflight EXCEPT ![g] =
                    IF handle[inflight[g].h].flag \cap oWRITEABLE # {}
                    THEN [@ EXCEPT !.pc = "load"] ELSE Idle]
  /\ UNCHANGED <<chunker, writable, tree, node, repoData, repoTrees, snapshots,
                 crashed, steps, pristine>>

\* the read of f.n.openWriters-- ...
CloseLoad(g) ==
  /\ crashed = "none"
  /\ inflight[g].op = "Close"
  /\ inflight[g].pc = "load"
  /\ inflight' = [inflight EXCEPT ![g].pc = "store",
                                  ![g].seen =
                                    node[handle[inflight[g].h].n].openWriters]
  /\ UNCHANGED <<chunker, writable, fsvars, steps, pristine>>

\* ... and its write
CloseStore(g) ==
  /\ crashed = "none"
  /\ inflight[g].op = "Close"
  /\ inflight[g].pc = "store"
  /\ node' = [node EXCEPT ![handle[inflight[g].h].n].openWriters =
                            inflight[g].seen - 1]
  /\ inflight' = [inflight EXCEPT ![g] = Idle]
  /\ UNCHANGED <<chunker, writable, tree, handle, repoData, repoTrees,
                 snapshots, crashed, steps, pristine>>

NextRace ==
  \/ StartNewSnapshot
  \/ \E path \in Paths, flag \in FlagSets, tmpOK \in TempFates :
       OpenFile(path, flag, tmpOK)
  \/ \E fate \in RepoFates : CommitSnapshot(fate)
  \/ \E g \in 1..MaxCalls, h \in 1..MaxHandles : CloseEnter(g, h)
  \/ \E g \in 1..MaxCalls : CloseMark(g)
  \/ \E g \in 1..MaxCalls : CloseLoad(g)
  \/ \E g \in 1..MaxCalls : CloseStore(g)

SpecRace == Init /\ [][NextRace]_vars

\* the goroutines inside a Close of a handle of node n
Closing(n) ==
  {g \in 1..MaxCalls : inflight[g].op = "Close" /\ handle[inflight[g].h].n = n}

\* C34: whenever no Close of one of its handles is under way, a file node's
\* openWriters is the number of its handles that were opened with a write
\* flag and are not closed, and it is 0 or 1.
C34_WritersCounted ==
  crashed = "none" =>
    \A n \in 1..Len(node) :
      Closing(n) = {} =>
        /\ node[n].openWriters = Cardinality(Writers(n))
        /\ node[n].openWriters \in {0, 1}

\* ---------------------------------------------------- read-only handles
\* C35: through an open handle that was opened without a write flag, Write
\* fails with ErrPermission and Truncate leaves the bytes and the length of
\* the node's backing as they are, whatever the backing is.
C35_ReadOnlyHandleChangesNothing ==
  crashed = "none" =>
    \A h \in 1..Len(handle) :
      (~handle[h].isClosed /\ handle[h].flag \cap oWRITEABLE = {}) =>
        /\ \A p \in Payloads :
             handleWrite(Heap, handle[h], p).err = "ErrPermission"
        /\ \A size \in TruncSizes :
             LET Same(r) == r.H.node[handle[h].n].data = node[handle[h].n].data
             IN Same(handleTruncate(Heap, handle[h].n, size))

\* -------------------------------------------------------- recorded size
\* C36: a file node that has Content records as its Size the sum of the sizes
\* of its blobs, so newFile (file.go) accepts it; and a commit that chunks a
\* file leaves it with Content, without a backing, and with the length of the
\* scratch bytes it chunked as its Size, the blobs being in the repository.
C36_SizeIsSumOfBlobs ==
  crashed = "none" =>
    /\ \A n \in 1..Len(node) :
         (node[n].Type = "file" /\ node[n].Content # None) =>
           newResticFileOK(node[n])
    /\ \A fate \in RepoFates :
         LET Sized(r) ==
               \A n \in Chunked(r) :
                 /\ r.H.node[n].backing = "none"
                 /\ r.H.node[n].Size = Len(node[n].data)
                 /\ \A i \in 1..Len(r.H.node[n].Content[1]) :
                      IndexHas(r.data, r.H.node[n].Content[1][i])
                 /\ Len(FileBytes(r.data, r.H.node[n].Content[1])) =
                      r.H.node[n].Size
         IN Sized(commitSnapshot(Heap, repoData, repoTrees, snapshots, fate))

\* a file that a commit chunked from a scratch file of one byte, opened again
\* through the chunk view
C36_Witness ==
  /\ crashed = "none"
  /\ Len(snapshots) >= 1
  /\ \E h \in 1..Len(handle) :
       /\ ~handle[h].isClosed
       /\ node[handle[h].n].backing = "ro"
       /\ node[handle[h].n].Size = 1
       /\ node[handle[h].n].Content = Some(<<Hash(<<2>>)>>)

\* -------------------------------------------------- clean directories
\* the directory nodes of the hierarchy whose tree a commit has no reason to
\* visit: never loaded, or loaded and not dirty
CleanDirs ==
  {d \in LiveNodes(Heap) :
     /\ node[d].Type = "dir"
     /\ node[d].subtree # 0 => tree[node[d].subtree].ID # None}

\* the trees at and beneath directory node d
Beneath(d) ==
  IF node[d].subtree = 0 THEN {}
  ELSE TreesFrom(Heap, {node[d].subtree}, Len(tree))

\* C37: a commit loads no tree, and a directory whose tree is not dirty is
\* not serialized again: neither its tree nor a tree beneath it is entered,
\* no tree and no node beneath it changes (no file of it is chunked), and
\* its entry keeps the subtree id it had.
C37_CleanDirectoryUntouched ==
  crashed = "none" =>
    \A fate \in RepoFates :
      LET Untouched(r) ==
            /\ Len(r.H.tree) = Len(tree)
            /\ Len(r.H.node) = Len(node)
            /\ \A d \in CleanDirs :
                 /\ r.H.node[d].Subtree = node[d].Subtree
                 /\ \A t \in Beneath(d) :
                      /\ t \notin r.open
                      /\ r.H.tree[t] = tree[t]
                 /\ \A m \in NodesOf(Heap, Beneath(d)) :
                      r.H.node[m] = node[m]
      IN Untouched(commitSnapshot(Heap, repoData, repoTrees, snapshots, fate))

\* the root is dirty beside a directory that was loaded and is clean and
\* holds an entry, and a commit that the repository accepts saves the root
C37_Witness ==
  /\ crashed = "none"
  /\ tree[root].ID = None
  /\ \E d \in CleanDirs :
       /\ node[d].subtree # 0
       /\ tree[node[d].subtree].Nodes # <<>>
  /\ LET Saved(r) == r.err = "ok" /\ root \in r.open
     IN Saved(commitSnapshot(Heap, repoData, repoTrees, snapshots, Reliable))

\* ------------------------------------------------------- containment
\* the trees strictly beneath tree t
Below(t) ==
  TreesFrom(Heap, {node[n].subtree : n \in NodesOf(Heap, {t})} \ {0},
            Len(tree))

\* C38: directory containment is a tree: no loaded directory tree lies
\* beneath itself, whatever was renamed.
C38_ContainmentIsTree ==
  crashed = "none" => \A t \in 1..Len(tree) : t \notin Below(t)

\* ------------------------------------------- handles beside a commit
\* CommitSnapshot holds fs.mu from its first statement to its return; the
\* methods of a handle do not take it. CommitEnter is the commit up to the
\* Seek to the start of a dirty file's backing: start keeps, for every file
\* the commit is going to chunk, the bytes its backing holds at that moment.
NoCommit == \A g \in 1..MaxCalls : inflight[g].op # "Commit"

CommitEnter(g) ==
  /\ crashed = "none"
  /\ steps < MaxSteps
  /\ NoCommit
  /\ inflight[g] = Idle
  /\ tree[root].ID = None
  /\ inflight' = [inflight EXCEPT ![g] =
       [Idle EXCEPT !.op = "Commit", !.pc = "chunking",
                    !.start = [n \in 1..Len(node) |->
                                 IF /\ node[n].Type = "file"
                                    /\ node[n].Content = None
                                    /\ node[n].backing = "scratch"
                                    /\ node[n].openWriters = 0
                                 THEN Some(node[n].data) ELSE None]]]
  /\ UNCHANGED <<writable, fsvars, steps, pristine>>

\* the chunk loops and the rest of the commit, reading what the backings
\* hold by then
CommitFinish(g, fate) ==
  /\ crashed = "none"
  /\ steps < MaxSteps
  /\ inflight[g].op = "Commit"
  /\ inflight[g].pc = "chunking"
  /\ \E r \in {commitSnapshot(Heap, repoData, repoTrees, snapshots, fate)} :
        /\ Len(r.snaps) <= MaxSnapshots
        /\ tree' = r.H.tree
        /\ node' = r.H.node
        /\ repoData' = r.data
        /\ repoTrees' = r.trees
        /\ snapshots' = r.snaps
        /\ chunker' = r.chunker
        /\ crashed' = IF IsPanic(r.err) THEN r.err ELSE "none"
        /\ pristine' = (r.err = "ok" \/ pristine)
        /\ inflight' = [inflight EXCEPT ![g].pc = r.err]
  /\ steps' = steps + 1
  /\ UNCHANGED <<writable, handle>>

\* the return of CommitSnapshot, which releases fs.mu
CommitReturn(g) ==
  /\ crashed = "none"
  /\ inflight[g].op = "Commit"
  /\ inflight[g].pc # "chunking"
  /\ inflight' = [inflight EXCEPT ![g] = Idle]
  /\ UNCHANGED <<writable, fsvars, steps, pristine>>

NextChunk ==
  \/ NoCommit /\ StartNewSnapshot
  \/ \E path \in Paths, flag \in FlagSets, tmpOK \in TempFates :
       NoCommit /\ OpenFile(path, flag, tmpOK)
  \/ \E h \in 1..MaxHandles, p \in Payloads : Write(h, p)
  \/ \E h \in 1..MaxHandles, len \in ReadLens : Read(h, len)
  \/ \E h \in 1..MaxHandles, size \in TruncSizes : Truncate(h, size)
  \/ \E h \in 1..MaxHandles, offset \in SeekOffsets, whence \in Whences :
       Seek(h, offset, whence)
  \/ \E h \in 1..MaxHandles : Close(h)
  \/ \E g \in 1..MaxCalls : CommitEnter(g)
  \/ \E g \in 1..MaxCalls, fate \in RepoFates : CommitFinish(g, fate)
  \/ \E g \in 1..MaxCalls : CommitReturn(g)

SpecChunk == Init /\ [][NextChunk]_vars

\* C39: the content a commit gives a file is the chunking of the bytes the
\* file's backing held when the commit of the file began, whatever the
\* handles of the node were called for while the commit ran.
C39_CommitSeesStartBytes ==
  crashed = "none" =>
    \A g \in 1..MaxCalls :
      (inflight[g].op = "Commit" /\ inflight[g].pc # "chunking") =>
        \A n \in 1..Len(inflight[g].start) :
          (inflight[g].start[n] # None /\ node[n].Content # None) =>
            node[n].Content = Some(ChunkIDs(inflight[g].start[n][1]))

\* ------------------------------------------------------ advisory lock
\* the open handles of node n whose isLocked flag is set
LockedOn(n) ==
  {h \in 1..Len(handle) :
     handle[h].n = n /\ ~handle[h].isClosed /\ handle[h].isLocked}

\* C40: at most one handle of a node has its isLocked flag set, and the
\* node's mutex is held exactly then; Unlock through a handle that does not
\* hold the lock leaves the mutex held; Lock through another handle waits
\* while a holder exists; Close of the holder releases the mutex.
C40_OneLockHolder ==
  crashed = "none" =>
    \A n \in 1..Len(node) :
      /\ Cardinality(LockedOn(n)) <= 1
      /\ node[n].flock <=> LockedOn(n) # {}
      /\ \A h \in 1..Len(handle) :
           (handle[h].n = n /\ ~handle[h].isClosed) =>
             /\ (~handle[h].isLocked /\ node[n].flock) =>
                  /\ handleUnlock(Heap, handle[h]).H.node[n].flock
                  /\ handleLock(Heap, handle[h]).err = "blocked: flock"
             /\ handle[h].isLocked =>
                  ~handleClose(Heap, handle[h]).H.node[n].flock

====
